---- MODULE Spec2Model ----
(***************************************************************************)
(* A model of sqlit's connection/session core:                             *)
(*   - ConnectionFlow (domains/connections/app/connection_flow.py):        *)
(*     credential population and the SSH-then-DB prompt sequence;          *)
(*   - ExplorerSchemaService (domains/explorer/app/schema_service.py):     *)
(*     capability-gated, cached schema listings run through the session's  *)
(*     executor;                                                           *)
(*   - UIStateMachine (domains/shell/state/machine.py): the choice of the  *)
(*     active UI state and the action check made against it.               *)
(* Python's None is the token None below; it is outside every set of       *)
(* strings the program handles.                                            *)
(***************************************************************************)
EXTENDS Integers, Sequences, FiniteSets, TLC

VARIABLES
    \* ---- ConnectionFlow ----
    cfgs,          \* heap of ConnectionConfig objects; cfgs[1] is the object passed to start()
    store,         \* the credentials service's answers for config.name
    hasPrompter,   \* ConnectionFlow.prompter is set
    hasManager,    \* ConnectionFlow.connection_manager is set
    flowPc,        \* "new" before start() is called, "returned" after it returned
    prompts,       \* prompter requests, in request order, each with its callback's state
    ready,         \* on_ready invocations, in order
    lookups,       \* credentials-service lookups made by start()
    orig,          \* the configuration as it was passed to start()
    populated,     \* the configuration right after credential population
    \* ---- ConnectionSession and ExplorerSchemaService ----
    caps,          \* session.provider.capabilities
    ifaces,        \* the extension interfaces session.provider.schema_inspector implements
    resolver,      \* ExplorerSchemaService.db_arg_resolver (None when not injected)
    object_cache,  \* ExplorerSchemaService.object_cache: partition key -> (kind -> listing)
    queue,         \* session.executor's work queue: submitted operations not yet started
    worker,        \* the operation the executor's worker thread is running, 0 when idle
    ops,           \* every operation handed to the adapter, in submission order, with its future
    started,       \* the operations as the adapter saw them start, in that order
    calls,         \* every schema-service call, in the order the calls began, each on a thread of its own
    \* ---- several sessions side by side ----
    sessions,      \* session id -> that session's executor and its schema service's cache and calls
    \* ---- UIStateMachine ----
    ui             \* the input context the state machine is asked about, and what it answered

flowVars == <<cfgs, store, hasPrompter, hasManager, flowPc, prompts, ready, lookups, orig, populated>>

schemaVars == <<caps, ifaces, resolver, object_cache, queue, worker, ops, started, calls>>

vars == <<cfgs, store, hasPrompter, hasManager, flowPc, prompts, ready, lookups, orig, populated,
          caps, ifaces, resolver, object_cache, queue, worker, ops, started, calls,
          sessions, ui>>

None == "None"

\* ------------------------------------------------------------------------
\* Connection configuration (data model)
\* ------------------------------------------------------------------------

Secrets == {"", "secret1", "secret2"}

MaybeSecret == Secrets \cup {None}

NoEndpoint == [present |-> FALSE, host |-> None, username |-> None, password |-> None]

Endpoint(pw) == [present |-> TRUE, host |-> "db.example.com", username |-> "admin", password |-> pw]

NoTunnel == [present |-> FALSE, host |-> None, username |-> None, password |-> None]

Tunnel(pw) == [present |-> TRUE, host |-> "bastion.example.com", username |-> "jump", password |-> pw]

Endpoints == {NoEndpoint} \cup {Endpoint(pw) : pw \in MaybeSecret}

Tunnels == {NoTunnel} \cup {Tunnel(pw) : pw \in MaybeSecret}

ConnectionConfig == [name : {"conn1"}, db_type : {"postgresql"}, tcp_endpoint : Endpoints, tunnel : Tunnels]

\* config.with_tunnel(password=pw): a new configuration, the tunnel's password replaced
with_tunnel(config, pw) == [config EXCEPT !.tunnel.password = pw]

\* config.with_endpoint(password=pw): a new configuration, the endpoint's password replaced
with_endpoint(config, pw) == [config EXCEPT !.tcp_endpoint.password = pw]

\* the tunnel requires a password and none is available
needs_ssh_password(config) == config.tunnel.present /\ config.tunnel.password = None

\* the database password is required and missing
needs_db_password(config) == config.tcp_endpoint.present /\ config.tcp_endpoint.password = None

\* ------------------------------------------------------------------------
\* ConnectionFlow.populate_credentials_if_missing
\* ------------------------------------------------------------------------

\* connection_manager.populate_credentials(config): fills the missing passwords from the store
manager_populate_credentials(config) ==
    LET c1 == IF config.tcp_endpoint.present /\ config.tcp_endpoint.password = None /\ store.password # None
              THEN [config EXCEPT !.tcp_endpoint.password = store.password]
              ELSE config
    IN  IF c1.tunnel.present /\ c1.tunnel.password = None /\ store.ssh_password # None
        THEN [c1 EXCEPT !.tunnel.password = store.ssh_password]
        ELSE c1

\* line 35: both passwords are already there
populate_returns_early(config) ==
    /\ config.tcp_endpoint.present
    /\ config.tcp_endpoint.password # None
    /\ (~config.tunnel.present \/ config.tunnel.password # None)

\* A variant of populate_lookups that asks the store before looking at the
\* configuration.
populate_lookups_eager(config) ==
    IF hasManager THEN {}
    ELSE (IF config.tcp_endpoint.present THEN {"get_password"} ELSE {})
         \cup (IF config.tunnel.present THEN {"get_ssh_password"} ELSE {})

\* the lookups populate_credentials_if_missing makes on the credentials service
populate_lookups(config) ==
    IF hasManager \/ populate_returns_early(config)
    THEN {}
    ELSE (IF config.tcp_endpoint.present /\ config.tcp_endpoint.password = None THEN {"get_password"} ELSE {})
         \cup (IF config.tunnel.present /\ config.tunnel.password = None THEN {"get_ssh_password"} ELSE {})

\* A variant that fills the endpoint's password and forgets the tunnel's.
populate_endpoint_only(config) ==
    IF config.tcp_endpoint.present /\ config.tcp_endpoint.password = None /\ store.password # None
    THEN [config EXCEPT !.tcp_endpoint.password = store.password]
    ELSE config

\* A variant that looks the passwords up and drops them: the configuration
\* stays as it was.
populate_discarding(config) == config

\* A variant that drops the early return and the "is None" tests: it always
\* takes the store's answer.
populate_overwriting(config) ==
    LET c1 == IF config.tcp_endpoint.present /\ store.password # None
              THEN [config EXCEPT !.tcp_endpoint.password = store.password]
              ELSE config
    IN  IF c1.tunnel.present /\ store.ssh_password # None
        THEN [c1 EXCEPT !.tunnel.password = store.ssh_password]
        ELSE c1

\* the configuration object after populate_credentials_if_missing mutated it in place
populate_credentials_if_missing(config) ==
    IF hasManager THEN manager_populate_credentials(config)
    ELSE IF populate_returns_early(config) THEN config
    ELSE LET c1 == IF config.tcp_endpoint.present /\ config.tcp_endpoint.password = None
                      /\ store.password # None
                   THEN [config EXCEPT !.tcp_endpoint.password = store.password]
                   ELSE config
         IN  IF c1.tunnel.present /\ c1.tunnel.password = None /\ store.ssh_password # None
             THEN [c1 EXCEPT !.tunnel.password = store.ssh_password]
             ELSE c1

\* ------------------------------------------------------------------------
\* ConnectionFlow.start and its callbacks
\* ------------------------------------------------------------------------

Prompt(kind, id) == [kind |-> kind, cfg |-> id, state |-> "pending", answer |-> None]

ReadyCall(heap, id, sync) == [cfg |-> id, value |-> heap[id], sync |-> sync]

\* A variant of _with_db_password that goes on to on_ready when no prompter is set.
with_db_password_ignoring_prompter(heap, pr, id, sync) ==
    /\ cfgs' = heap
    /\ IF needs_db_password(heap[id]) /\ hasPrompter
       THEN /\ prompts' = Append(pr, Prompt("db", id))
            /\ ready' = ready
       ELSE /\ prompts' = pr
            /\ ready' = Append(ready, ReadyCall(heap, id, sync))

\* _with_db_password(config, on_ready), config being the object heap[id]; pr is
\* the prompt log so far, sync tells whether start() is still on the stack
_with_db_password(heap, pr, id, sync) ==
    /\ cfgs' = heap
    /\ IF needs_db_password(heap[id])
       THEN IF ~hasPrompter
            THEN /\ prompts' = pr
                 /\ ready' = ready
            ELSE /\ prompts' = Append(pr, Prompt("db", id))
                 /\ ready' = ready
       ELSE /\ prompts' = pr
            /\ ready' = Append(ready, ReadyCall(heap, id, sync))

\* A variant of start that lacks the return after requesting the SSH prompt.
start_falling_through ==
    /\ flowPc = "new"
    /\ flowPc' = "returned"
    /\ lookups' = populate_lookups(cfgs[1])
    /\ LET heap == <<populate_credentials_if_missing(cfgs[1])>> IN
       /\ populated' = heap[1]
       /\ IF needs_ssh_password(heap[1])
          THEN IF ~hasPrompter
               THEN /\ cfgs' = heap
                    /\ prompts' = prompts
                    /\ ready' = ready
               ELSE _with_db_password(heap, Append(prompts, Prompt("ssh", 1)), 1, TRUE)
          ELSE _with_db_password(heap, prompts, 1, TRUE)
    /\ UNCHANGED <<store, hasPrompter, hasManager, orig>>
    /\ UNCHANGED <<schemaVars, sessions, ui>>

\* ConnectionFlow.start(config, on_ready), config being the object cfgs[1]
start ==
    /\ flowPc = "new"
    /\ flowPc' = "returned"
    /\ lookups' = populate_lookups(cfgs[1])
    /\ LET heap == <<populate_credentials_if_missing(cfgs[1])>> IN
       /\ populated' = heap[1]
       /\ IF needs_ssh_password(heap[1])
          THEN IF ~hasPrompter
               THEN /\ cfgs' = heap
                    /\ prompts' = prompts
                    /\ ready' = ready
               ELSE /\ cfgs' = heap
                    /\ prompts' = Append(prompts, Prompt("ssh", 1))
                    /\ ready' = ready
          ELSE _with_db_password(heap, prompts, 1, TRUE)
    /\ UNCHANGED <<store, hasPrompter, hasManager, orig>>
    /\ UNCHANGED <<schemaVars, sessions, ui>>

Answered(i, password) == [prompts EXCEPT ![i].state = "done", ![i].answer = password]

\* A variant of on_ssh_password that writes the password into the captured
\* configuration instead of deriving a copy.
on_ssh_password_in_place(i, password) ==
    /\ IF password = None
       THEN /\ cfgs' = cfgs
            /\ prompts' = Answered(i, password)
            /\ ready' = ready
       ELSE _with_db_password([cfgs EXCEPT ![prompts[i].cfg].tunnel.password = password],
                              Answered(i, password), prompts[i].cfg, FALSE)
    /\ UNCHANGED <<store, hasPrompter, hasManager, flowPc, lookups, orig, populated>>
    /\ UNCHANGED <<schemaVars, sessions, ui>>

\* A variant of on_ssh_password that lacks the test for None.
on_ssh_password_unchecked(i, password) ==
    /\ LET heap == Append(cfgs, with_tunnel(cfgs[prompts[i].cfg], password))
       IN  _with_db_password(heap, Answered(i, password), Len(heap), FALSE)
    /\ UNCHANGED <<store, hasPrompter, hasManager, flowPc, lookups, orig, populated>>
    /\ UNCHANGED <<schemaVars, sessions, ui>>

\* the closure on_ssh_password(password) of start(), for the prompt prompts[i]
on_ssh_password(i, password) ==
    /\ IF password = None
       THEN /\ cfgs' = cfgs
            /\ prompts' = Answered(i, password)
            /\ ready' = ready
       ELSE LET heap == Append(cfgs, with_tunnel(cfgs[prompts[i].cfg], password))
            IN  _with_db_password(heap, Answered(i, password), Len(heap), FALSE)
    /\ UNCHANGED <<store, hasPrompter, hasManager, flowPc, lookups, orig, populated>>
    /\ UNCHANGED <<schemaVars, sessions, ui>>

\* A variant of on_db_password that lacks the test for None.
on_db_password_unchecked(i, password) ==
    /\ LET heap == Append(cfgs, with_endpoint(cfgs[prompts[i].cfg], password)) IN
       /\ cfgs' = heap
       /\ prompts' = Answered(i, password)
       /\ ready' = Append(ready, ReadyCall(heap, Len(heap), FALSE))
    /\ UNCHANGED <<store, hasPrompter, hasManager, flowPc, lookups, orig, populated>>
    /\ UNCHANGED <<schemaVars, sessions, ui>>

\* A variant of on_db_password that hands on_ready the configuration it was
\* prompted for, not the derived one.
on_db_password_stale(i, password) ==
    /\ IF password = None
       THEN /\ cfgs' = cfgs
            /\ prompts' = Answered(i, password)
            /\ ready' = ready
       ELSE LET heap == Append(cfgs, with_endpoint(cfgs[prompts[i].cfg], password)) IN
            /\ cfgs' = heap
            /\ prompts' = Answered(i, password)
            /\ ready' = Append(ready, ReadyCall(heap, prompts[i].cfg, FALSE))
    /\ UNCHANGED <<store, hasPrompter, hasManager, flowPc, lookups, orig, populated>>
    /\ UNCHANGED <<schemaVars, sessions, ui>>

\* the closure on_db_password(password) of _with_db_password(), for the prompt prompts[i]
on_db_password(i, password) ==
    /\ IF password = None
       THEN /\ cfgs' = cfgs
            /\ prompts' = Answered(i, password)
            /\ ready' = ready
       ELSE LET heap == Append(cfgs, with_endpoint(cfgs[prompts[i].cfg], password)) IN
            /\ cfgs' = heap
            /\ prompts' = Answered(i, password)
            /\ ready' = Append(ready, ReadyCall(heap, Len(heap), FALSE))
    /\ UNCHANGED <<store, hasPrompter, hasManager, flowPc, lookups, orig, populated>>
    /\ UNCHANGED <<schemaVars, sessions, ui>>

\* The prompter invokes a prompt's callback, at most once, with a secret or none.
PrompterAnswersSsh ==
    \E i \in DOMAIN prompts, password \in MaybeSecret :
        /\ prompts[i].kind = "ssh"
        /\ prompts[i].state = "pending"
        /\ on_ssh_password(i, password)

PrompterAnswersDb ==
    \E i \in DOMAIN prompts, password \in MaybeSecret :
        /\ prompts[i].kind = "db"
        /\ prompts[i].state = "pending"
        /\ on_db_password(i, password)

\* ------------------------------------------------------------------------
\* ConnectionSession: capabilities, inspector, executor
\* ------------------------------------------------------------------------


CachedKindsWithoutProcedures == {"tables", "views"}

CachedKindsWithGated == {"tables", "views", "procedures", "indexes", "triggers", "sequences"}

CachedKinds == {"tables", "views", "procedures"}

GatedKinds == {"indexes", "triggers", "sequences"}

FolderKinds == CachedKinds \cup GatedKinds

Interfaces == {"IndexInspector", "TriggerInspector", "SequenceInspector", "ProcedureInspector"}

Capabilities ==
    [supports_indexes : BOOLEAN, supports_triggers : BOOLEAN,
     supports_sequences : BOOLEAN, supports_stored_procedures : BOOLEAN]

AllCapabilities ==
    [supports_indexes |-> TRUE, supports_triggers |-> TRUE,
     supports_sequences |-> TRUE, supports_stored_procedures |-> TRUE]

\* What an inspector method may return: an empty listing or one of two items,
\* the items' names in descending order.
AdapterListings(fn) ==
    CASE fn \in {"get_tables", "get_views"} ->
            {<<>>, << <<"public", "users">>, <<"public", "accounts">> >>}
      [] fn = "get_procedures" -> {<<>>, <<"sp_b", "sp_a">>}
      [] fn \in {"get_indexes", "get_triggers"} ->
            {<<>>, <<[name |-> "obj_b", table_name |-> "users"], [name |-> "obj_a", table_name |-> "users"]>>}
      [] fn = "get_sequences" -> {<<>>, <<[name |-> "seq_b"], [name |-> "seq_a"]>>}
      [] fn = "get_databases" -> {<<>>, <<"db2", "db1">>}
      [] fn = "get_columns" -> {<<>>, <<[name |-> "id", data_type |-> "INTEGER"], [name |-> "email", data_type |-> "TEXT"]>>}
      [] fn \in {"get_index_definition", "get_trigger_definition", "get_sequence_definition"} ->
            {None, "definition"}

\* the executor's worker threads (one dedicated worker per session)
max_workers == 1

Running == {i \in DOMAIN ops : ops[i].state = "running"}

\* The worker thread takes the oldest submitted operation and calls the adapter.
WorkerStart ==
    /\ queue # <<>>
    /\ Cardinality({i \in Running : ops[i].by = "worker"}) < max_workers
    /\ worker' = Head(queue)
    /\ queue' = Tail(queue)
    /\ ops' = [ops EXCEPT ![Head(queue)].state = "running", ![Head(queue)].by = "worker"]
    /\ started' = Append(started, Head(queue))
    /\ UNCHANGED <<caps, ifaces, resolver, object_cache, calls>>
    /\ UNCHANGED <<flowVars, sessions, ui>>

\* The adapter method returns a listing, or raises; the operation's future is resolved.
AdapterReturns ==
    \E i \in Running :
        /\ \/ \E data \in AdapterListings(ops[i].fn) :
                 ops' = [ops EXCEPT ![i].state = "done", ![i].result = data]
           \/ ops' = [ops EXCEPT ![i].state = "failed"]
        /\ worker' = IF worker = i THEN 0 ELSE worker
        /\ UNCHANGED <<caps, ifaces, resolver, object_cache, queue, started, calls>>
        /\ UNCHANGED <<flowVars, sessions, ui>>

\* ------------------------------------------------------------------------
\* ExplorerSchemaService
\* ------------------------------------------------------------------------

\* the injected resolvers: "current" addresses the connection's current
\* database and ignores the selector
Resolvers == {None, "current"}

apply_resolver(r, database) == IF r = "current" THEN None ELSE database

\* ExplorerSchemaService._resolve_db_arg
resolve_db_arg_unresolved(database) == database

_resolve_db_arg(database) == IF resolver # None THEN apply_resolver(resolver, database) ELSE database

Operation(c, fn, db_arg, state, by) ==
    [call |-> c, fn |-> fn, db_arg |-> db_arg, state |-> state, by |-> by, result |-> <<>>]

\* A variant of _run that calls fn on the caller's own thread.
run_on_caller_thread(c, fn, db_arg) ==
    /\ ops' = Append(ops, Operation(c, fn, db_arg, "running", "caller"))
    /\ started' = Append(started, Len(ops) + 1)
    /\ UNCHANGED <<queue, worker>>

\* ExplorerSchemaService._run, up to the wait on the future: call c submits
\* fn(connection, ..., db_arg) to the session's executor
_run(c, fn, db_arg) ==
    /\ ops' = Append(ops, Operation(c, fn, db_arg, "queued", "nobody"))
    /\ queue' = Append(queue, Len(ops) + 1)
    /\ UNCHANGED <<started, worker>>

\* the operation call c waits for
OpOf(c) == CHOOSE i \in DOMAIN ops : ops[i].call = c

\* the future of call c's operation is resolved: .result() returns or raises
FutureResolved(c) ==
    /\ \E i \in DOMAIN ops : ops[i].call = c
    /\ ops[OpOf(c)].state \in {"done", "failed"}

Completed == {c \in DOMAIN calls : calls[c].status # "running"}

\* the calls whose threads are inside the service
InFlight == {c \in DOMAIN calls : calls[c].status = "running"}

\* one of the caller threads is outside the service, and may begin a call
CanCall(callers, maxCalls) == Cardinality(InFlight) < callers /\ Len(calls) < maxCalls

\* a call as it begins; after: the calls that had ended by then
Call(op, kind, database) ==
    [op |-> op, kind |-> kind, db |-> database, after |-> Completed,
     status |-> "running", result |-> <<>>]

Returned(call, result) == [call EXCEPT !.status = "returned", !.result = result]

Raised(call) == [call EXCEPT !.status = "raised"]

\* A variant of cache_key_of that keeps one partition for every database.
cache_key_unpartitioned(database) == "__default__"

cache_key_resolved(database) ==
    IF _resolve_db_arg(database) \in {None, ""} THEN "__default__" ELSE _resolve_db_arg(database)

\* line 54: cache_key = database or "__default__"
cache_key_of(database) == IF database \in {None, ""} THEN "__default__" ELSE database

\* A variant of cache_hit that tests the entry's truth value, not its presence.
cache_hit_nonempty(cache_key, key) ==
    /\ cache_key \in DOMAIN object_cache
    /\ key \in DOMAIN object_cache[cache_key]
    /\ object_cache[cache_key][key] # <<>>

\* line 58: cache_key in obj_cache and key in obj_cache[cache_key]
cache_hit(cache_key, key) ==
    /\ cache_key \in DOMAIN object_cache
    /\ key \in DOMAIN object_cache[cache_key]

\* A variant of cache_store that starts the partition afresh on every store.
cache_store_fresh_partition(cache_key, key, data) ==
    [ck \in DOMAIN object_cache \cup {cache_key} |->
        IF ck = cache_key THEN [k \in {key} |-> data] ELSE object_cache[ck]]

\* lines 61-63: obj_cache[cache_key][key] = data, the partition created when missing
cache_store(cache_key, key, data) ==
    LET partition == IF cache_key \in DOMAIN object_cache
                     THEN object_cache[cache_key]
                     ELSE [k \in {} |-> <<>>]
    IN  [ck \in DOMAIN object_cache \cup {cache_key} |->
            IF ck = cache_key
            THEN [k \in DOMAIN partition \cup {key} |-> IF k = key THEN data ELSE partition[k]]
            ELSE object_cache[ck]]

\* A variant of supports that trusts the capability flag alone.
supports_by_flag_only(folder_type) ==
    CASE folder_type = "indexes" -> caps.supports_indexes
      [] folder_type = "triggers" -> caps.supports_triggers
      [] folder_type = "sequences" -> caps.supports_sequences
      [] folder_type = "procedures" -> caps.supports_stored_procedures
      [] OTHER -> TRUE

\* lines 73, 80, 87, 94: the capability flag and the isinstance test of a kind
supports(folder_type) ==
    CASE folder_type = "indexes" -> caps.supports_indexes /\ "IndexInspector" \in ifaces
      [] folder_type = "triggers" -> caps.supports_triggers /\ "TriggerInspector" \in ifaces
      [] folder_type = "sequences" -> caps.supports_sequences /\ "SequenceInspector" \in ifaces
      [] folder_type = "procedures" -> caps.supports_stored_procedures /\ "ProcedureInspector" \in ifaces
      [] OTHER -> TRUE

\* the inspector method a folder kind is listed with
getter(folder_type) ==
    CASE folder_type = "tables" -> "get_tables"
      [] folder_type = "views" -> "get_views"
      [] folder_type = "indexes" -> "get_indexes"
      [] folder_type = "triggers" -> "get_triggers"
      [] folder_type = "sequences" -> "get_sequences"
      [] folder_type = "procedures" -> "get_procedures"

\* A variant of items that walks the adapter's listing from its end.
items_reversed(folder_type, raw_data) ==
    LET at(i) == raw_data[Len(raw_data) + 1 - i] IN
    CASE folder_type = "tables" -> [i \in DOMAIN raw_data |-> <<"table", at(i)[1], at(i)[2]>>]
      [] folder_type = "views" -> [i \in DOMAIN raw_data |-> <<"view", at(i)[1], at(i)[2]>>]
      [] folder_type = "indexes" -> [i \in DOMAIN raw_data |-> <<"index", at(i).name, at(i).table_name>>]
      [] folder_type = "triggers" -> [i \in DOMAIN raw_data |-> <<"trigger", at(i).name, at(i).table_name>>]
      [] folder_type = "sequences" -> [i \in DOMAIN raw_data |-> <<"sequence", at(i).name, "">>]
      [] folder_type = "procedures" -> [i \in DOMAIN raw_data |-> <<"procedure", "", at(i)>>]

\* the list comprehensions of list_folder_items over the adapter's listing
items(folder_type, raw_data) ==
    CASE folder_type = "tables" -> [i \in DOMAIN raw_data |-> <<"table", raw_data[i][1], raw_data[i][2]>>]
      [] folder_type = "views" -> [i \in DOMAIN raw_data |-> <<"view", raw_data[i][1], raw_data[i][2]>>]
      [] folder_type = "indexes" -> [i \in DOMAIN raw_data |-> <<"index", raw_data[i].name, raw_data[i].table_name>>]
      [] folder_type = "triggers" -> [i \in DOMAIN raw_data |-> <<"trigger", raw_data[i].name, raw_data[i].table_name>>]
      [] folder_type = "sequences" -> [i \in DOMAIN raw_data |-> <<"sequence", raw_data[i].name, "">>]
      [] folder_type = "procedures" -> [i \in DOMAIN raw_data |-> <<"procedure", "", raw_data[i]>>]

\* A variant of list_folder_items whose last branch lists tables for any
\* folder kind it does not know.
list_folder_items_defaulting(folder_type, database) ==
    LET c == Len(calls) + 1
        call == Call("list_folder_items", folder_type, database)
        db_arg == _resolve_db_arg(database)
        cache_key == cache_key_of(database)
        known == IF folder_type \in FolderKinds THEN folder_type ELSE "tables"
    IN  /\ IF supports(known)
           THEN IF known \in CachedKinds /\ cache_hit(cache_key, known)
                THEN /\ calls' = Append(calls, Returned(call, items(known, object_cache[cache_key][known])))
                     /\ UNCHANGED <<ops, queue, started, worker>>
                ELSE /\ calls' = Append(calls, call)
                     /\ _run(c, getter(known), db_arg)
           ELSE /\ calls' = Append(calls, Returned(call, <<>>))
                /\ UNCHANGED <<ops, queue, started, worker>>
        /\ UNCHANGED <<caps, ifaces, resolver, object_cache>>
        /\ UNCHANGED <<flowVars, sessions, ui>>

\* A thread calls list_folder_items(folder_type, database): the call runs up
\* to its return, or up to the wait on the future of the operation it submits.
list_folder_items(folder_type, database) ==
    LET c == Len(calls) + 1
        call == Call("list_folder_items", folder_type, database)
        db_arg == _resolve_db_arg(database)
        cache_key == cache_key_of(database)
    IN  /\ IF folder_type \in FolderKinds /\ supports(folder_type)
           THEN IF folder_type \in CachedKinds /\ cache_hit(cache_key, folder_type)
                THEN /\ calls' = Append(calls, Returned(call, items(folder_type, object_cache[cache_key][folder_type])))
                     /\ UNCHANGED <<ops, queue, started, worker>>
                ELSE /\ calls' = Append(calls, call)
                     /\ _run(c, getter(folder_type), db_arg)
           ELSE /\ calls' = Append(calls, Returned(call, <<>>))
                /\ UNCHANGED <<ops, queue, started, worker>>
        /\ UNCHANGED <<caps, ifaces, resolver, object_cache>>
        /\ UNCHANGED <<flowVars, sessions, ui>>

\* A variant of list_folder_items_result that makes the partition before the
\* loader's outcome is known.
list_folder_items_result_partition_first(c) ==
    /\ c \in InFlight
    /\ calls[c].op = "list_folder_items"
    /\ FutureResolved(c)
    /\ IF ops[OpOf(c)].state = "failed"
       THEN /\ calls' = [calls EXCEPT ![c] = Raised(calls[c])]
            /\ object_cache' = IF calls[c].kind \in CachedKinds
                               THEN [ck \in DOMAIN object_cache \cup {cache_key_of(calls[c].db)} |->
                                        IF ck \in DOMAIN object_cache THEN object_cache[ck] ELSE <<>>]
                               ELSE object_cache
       ELSE /\ calls' = [calls EXCEPT ![c] = Returned(calls[c], items(calls[c].kind, ops[OpOf(c)].result))]
            /\ object_cache' = IF calls[c].kind \in CachedKinds
                               THEN cache_store(cache_key_of(calls[c].db), calls[c].kind, ops[OpOf(c)].result)
                               ELSE object_cache
    /\ UNCHANGED <<caps, ifaces, resolver, queue, worker, ops, started>>
    /\ UNCHANGED <<flowVars, sessions, ui>>

\* The wait of call c in list_folder_items ends: the loader's exception
\* propagates, or cached() stores the listing and the items are returned.
list_folder_items_result(c) ==
    /\ c \in InFlight
    /\ calls[c].op = "list_folder_items"
    /\ FutureResolved(c)
    /\ IF ops[OpOf(c)].state = "failed"
       THEN /\ calls' = [calls EXCEPT ![c] = Raised(calls[c])]
            /\ object_cache' = object_cache
       ELSE /\ calls' = [calls EXCEPT ![c] = Returned(calls[c], items(calls[c].kind, ops[OpOf(c)].result))]
            /\ object_cache' = IF calls[c].kind \in CachedKinds
                               THEN cache_store(cache_key_of(calls[c].db), calls[c].kind, ops[OpOf(c)].result)
                               ELSE object_cache
    /\ UNCHANGED <<caps, ifaces, resolver, queue, worker, ops, started>>
    /\ UNCHANGED <<flowVars, sessions, ui>>

\* A thread calls list_databases().
list_databases ==
    /\ calls' = Append(calls, Call("list_databases", None, None))
    /\ _run(Len(calls) + 1, "get_databases", None)
    /\ UNCHANGED <<caps, ifaces, resolver, object_cache>>
    /\ UNCHANGED <<flowVars, sessions, ui>>

\* A thread calls list_columns(database, schema, name).
list_columns(database) ==
    /\ calls' = Append(calls, Call("list_columns", None, database))
    /\ _run(Len(calls) + 1, "get_columns", _resolve_db_arg(database))
    /\ UNCHANGED <<caps, ifaces, resolver, object_cache>>
    /\ UNCHANGED <<flowVars, sessions, ui>>

\* The three definition lookups, named by their inspector method.
DefinitionOps == {"get_index_definition", "get_trigger_definition", "get_sequence_definition"}

\* the extension interface a definition lookup asks the inspector for
inspector_of(op) ==
    CASE op = "get_index_definition" -> "IndexInspector"
      [] op = "get_trigger_definition" -> "TriggerInspector"
      [] op = "get_sequence_definition" -> "SequenceInspector"

\* A thread calls get_index_definition, get_trigger_definition or
\* get_sequence_definition for an object of the database.
get_definition(op, database) ==
    /\ IF inspector_of(op) \notin ifaces
       THEN /\ calls' = Append(calls, Returned(Call(op, None, database), None))
            /\ UNCHANGED <<ops, queue, started, worker>>
       ELSE /\ calls' = Append(calls, Call(op, None, database))
            /\ _run(Len(calls) + 1, op, _resolve_db_arg(database))
    /\ UNCHANGED <<caps, ifaces, resolver, object_cache>>
    /\ UNCHANGED <<flowVars, sessions, ui>>

\* A variant of run_result that keeps what the adapter returned in the cache.
run_result_memoised(c) ==
    /\ c \in InFlight
    /\ calls[c].op \in {"list_databases", "list_columns"} \cup DefinitionOps
    /\ FutureResolved(c)
    /\ calls' = [calls EXCEPT ![c] = IF ops[OpOf(c)].state = "failed"
                                     THEN Raised(calls[c])
                                     ELSE Returned(calls[c], ops[OpOf(c)].result)]
    /\ object_cache' = IF ops[OpOf(c)].state = "failed"
                       THEN object_cache
                       ELSE cache_store(cache_key_of(calls[c].db), calls[c].op, ops[OpOf(c)].result)
    /\ UNCHANGED <<caps, ifaces, resolver, queue, worker, ops, started>>
    /\ UNCHANGED <<flowVars, sessions, ui>>

\* A variant of run_result in which any failed operation of the session fails
\* the caller.
run_result_shared_failure(c) ==
    /\ c \in InFlight
    /\ calls[c].op \in {"list_databases", "list_columns"} \cup DefinitionOps
    /\ FutureResolved(c)
    /\ calls' = [calls EXCEPT ![c] = IF \E i \in DOMAIN ops : ops[i].state = "failed"
                                     THEN Raised(calls[c])
                                     ELSE Returned(calls[c], ops[OpOf(c)].result)]
    /\ UNCHANGED <<caps, ifaces, resolver, object_cache, queue, worker, ops, started>>
    /\ UNCHANGED <<flowVars, sessions, ui>>

\* A variant of run_result that does not wait for the future (the .result()
\* of line 34 left out): it returns whatever the operation holds so far.
run_result_not_waiting(c) ==
    /\ c \in InFlight
    /\ calls[c].op \in {"list_databases", "list_columns"} \cup DefinitionOps
    /\ calls' = [calls EXCEPT ![c] = IF ops[OpOf(c)].state = "failed"
                                     THEN Raised(calls[c])
                                     ELSE Returned(calls[c], ops[OpOf(c)].result)]
    /\ UNCHANGED <<caps, ifaces, resolver, object_cache, queue, worker, ops, started>>
    /\ UNCHANGED <<flowVars, sessions, ui>>

\* The wait of call c in list_databases, list_columns or a definition lookup
\* ends: _run's value is returned as it is, or its exception propagates.
run_result(c) ==
    /\ c \in InFlight
    /\ calls[c].op \in {"list_databases", "list_columns"} \cup DefinitionOps
    /\ FutureResolved(c)
    /\ calls' = [calls EXCEPT ![c] = IF ops[OpOf(c)].state = "failed"
                                     THEN Raised(calls[c])
                                     ELSE Returned(calls[c], ops[OpOf(c)].result)]
    /\ UNCHANGED <<caps, ifaces, resolver, object_cache, queue, worker, ops, started>>
    /\ UNCHANGED <<flowVars, sessions, ui>>

\* ------------------------------------------------------------------------
\* Specifications
\* ------------------------------------------------------------------------

\* no schema service in use
\* ------------------------------------------------------------------------
\* Two sessions side by side, each with its own schema service
\* ------------------------------------------------------------------------

Sessions == {"s1", "s2"}

\* a session just established: idle executor, and a service with an empty
\* cache and no call made
NewSession == [object_cache |-> <<>>, queue |-> <<>>, running |-> 0, ops |-> <<>>, calls |-> <<>>]

SessionsIdle == sessions = [s \in Sessions |-> NewSession]

\* A variant in which every service submits to one process-wide executor.
executor_shared(s) == "s1"

\* line 34: self.session.executor, the executor of the service's own session
executor_of(s) == s

\* A variant in which every service uses one module-level cache.
object_cache_shared(s) == "s1"

\* line 52: obj_cache = self.object_cache, the service's own field
object_cache_of(s) == s

\* lines 61-63 on a cache given as a value
session_cache_store(cache, cache_key, key, data) ==
    LET partition == IF cache_key \in DOMAIN cache THEN cache[cache_key] ELSE [k \in {} |-> <<>>]
    IN  [ck \in DOMAIN cache \cup {cache_key} |->
            IF ck = cache_key
            THEN [k \in DOMAIN partition \cup {key} |-> IF k = key THEN data ELSE partition[k]]
            ELSE cache[ck]]

\* the operation that call c of session s's service is waiting for
SessionOpOf(s, c) ==
    CHOOSE i \in DOMAIN sessions[executor_of(s)].ops :
        sessions[executor_of(s)].ops[i].svc = s /\ sessions[executor_of(s)].ops[i].call = c

SessionInFlight(s) == {c \in DOMAIN sessions[s].calls : sessions[s].calls[c].status = "running"}

\* each session's service is called from one thread, a call at a time
SessionCanCall(s, maxCalls) ==
    /\ SessionInFlight(s) = {}
    /\ Len(sessions[s].calls) < maxCalls

\* A thread calls list_folder_items("tables", database) on session s's service.
session_list_tables(s, database) ==
    LET cache == sessions[object_cache_of(s)].object_cache
        cache_key == cache_key_of(database)
        e == executor_of(s)
        c == Len(sessions[s].calls) + 1
    IN  /\ IF cache_key \in DOMAIN cache /\ "tables" \in DOMAIN cache[cache_key]
           THEN sessions' = [sessions EXCEPT ![s].calls =
                                Append(@, [db |-> database, status |-> "returned",
                                           result |-> items("tables", cache[cache_key]["tables"])])]
           ELSE sessions' = [sessions EXCEPT
                                ![s].calls = Append(@, [db |-> database, status |-> "running", result |-> <<>>]),
                                ![e].ops = Append(@, [svc |-> s, call |-> c, fn |-> "get_tables",
                                                      db_arg |-> database, state |-> "queued", result |-> <<>>]),
                                ![e].queue = Append(@, Len(sessions[e].ops) + 1)]
        /\ UNCHANGED <<flowVars, schemaVars, ui>>

\* The wait of call c of session s's service ends.
session_list_tables_result(s, c) ==
    LET e == executor_of(s)
        o == object_cache_of(s)
    IN  /\ c \in SessionInFlight(s)
        /\ \E i \in DOMAIN sessions[e].ops :
              /\ sessions[e].ops[i].svc = s
              /\ sessions[e].ops[i].call = c
              /\ sessions[e].ops[i].state \in {"done", "failed"}
        /\ IF sessions[e].ops[SessionOpOf(s, c)].state = "failed"
           THEN sessions' = [sessions EXCEPT ![s].calls[c].status = "raised"]
           ELSE sessions' = [sessions EXCEPT
                                ![s].calls[c].status = "returned",
                                ![s].calls[c].result = items("tables", sessions[e].ops[SessionOpOf(s, c)].result),
                                ![o].object_cache = session_cache_store(@, cache_key_of(sessions[s].calls[c].db), "tables",
                                                           sessions[e].ops[SessionOpOf(s, c)].result)]
        /\ UNCHANGED <<flowVars, schemaVars, ui>>

\* Session s's worker takes the next operation of its own queue.
SessionWorkerStart(s) ==
    /\ sessions[s].queue # <<>>
    /\ sessions[s].running = 0
    /\ sessions' = [sessions EXCEPT ![s].running = Head(sessions[s].queue),
                                    ![s].queue = Tail(@),
                                    ![s].ops[Head(sessions[s].queue)].state = "running"]
    /\ UNCHANGED <<flowVars, schemaVars, ui>>

\* The adapter call session s's worker is running returns or raises.
SessionAdapterReturns(s) ==
    /\ sessions[s].running # 0
    /\ \/ \E data \in AdapterListings("get_tables") :
             sessions' = [sessions EXCEPT ![s].ops[sessions[s].running].state = "done",
                                          ![s].ops[sessions[s].running].result = data,
                                          ![s].running = 0]
       \/ sessions' = [sessions EXCEPT ![s].ops[sessions[s].running].state = "failed",
                                       ![s].running = 0]
    /\ UNCHANGED <<flowVars, schemaVars, ui>>

\* ------------------------------------------------------------------------
\* UIStateMachine
\* ------------------------------------------------------------------------

\* UIStateMachine._states: the states in the order get_active_state tries them
_states ==
    << "modal_active",
       "query_executing",
       "leader_pending",
       "tree_filter_active",
       "tree_on_connection",
       "tree_on_database",
       "tree_on_table",
       "tree_on_folder",
       "tree_on_object",
       "tree_focused",
       "autocomplete_active",
       "query_insert",
       "query_normal",
       "query_focused",
       "results_filter_active",
       "value_view_active",
       "results_focused",
       "main_screen",
       "root" >>

StateNames == {_states[i] : i \in DOMAIN _states}

\* the parent= argument each state is constructed with in UIStateMachine.__init__
parent_of(state) ==
    CASE state \in {"modal_active", "query_executing", "main_screen"} -> "root"
      [] state \in {"leader_pending", "tree_focused", "tree_filter_active", "query_focused",
                    "results_focused", "results_filter_active", "value_view_active"} -> "main_screen"
      [] state \in {"tree_on_connection", "tree_on_database", "tree_on_table",
                    "tree_on_folder", "tree_on_object"} -> "tree_focused"
      [] state \in {"query_normal", "query_insert", "autocomplete_active"} -> "query_focused"

\* how many of the states other than main_screen report themselves active at once
MaxActive == 2

\* An InputContext, as far as the state machine looks at it: the two fields
\* MainScreenState.is_active reads; for every other state, whether its
\* is_active(app) holds (active); and the state, if any, whose
\* check_action(app, action_name) yields ALLOWED for the action asked about
\* (allowing).  The other states' methods are inputs here: any outcome at all.
InputContext ==
    [modal_open : BOOLEAN,
     query_executing : BOOLEAN,
     active : {a \in SUBSET (StateNames \ {"main_screen"}) : Cardinality(a) <= MaxActive},
     allowing : StateNames \cup {None}]

\* A variant of is_active whose MainScreenState looks at the modal only.
is_active_ignoring_query(state, app) ==
    IF state = "main_screen"
    THEN ~app.modal_open
    ELSE state \in app.active

\* state.is_active(app); MainScreenState's is the one of main_screen.py
is_active(state, app) ==
    IF state = "main_screen"
    THEN IF app.modal_open THEN FALSE ELSE ~app.query_executing
    ELSE state \in app.active

\* state.check_action(app, action_name): ALLOWED is the one ActionResult the
\* machine tells apart from the others
State_check_action(state, app) ==
    IF app.allowing = state THEN "ALLOWED" ELSE "OTHER"

\* A variant of get_active_state that keeps looking after a match, and so
\* returns the last active state of the list.
get_active_state_least_specific(app) ==
    LET act == {i \in DOMAIN _states : is_active(_states[i], app)} IN
    IF act = {} THEN "root"
    ELSE _states[CHOOSE i \in act : \A j \in act : j <= i]

\* the loop of get_active_state, from the i-th state of _states on
RECURSIVE get_active_state_from(_, _)
get_active_state_from(i, app) ==
    IF i > Len(_states) THEN "root"
    ELSE IF is_active(_states[i], app) THEN _states[i]
    ELSE get_active_state_from(i + 1, app)

get_active_state(app) ==
    get_active_state_from(1, app)

check_action(app) ==
    LET state == get_active_state(app)
        result == State_check_action(state, app)
    IN  result = "ALLOWED"

\* the state machine has not been asked anything
UiIdle ==
    ui = [app |-> [modal_open |-> FALSE, query_executing |-> FALSE, active |-> {}, allowing |-> None],
          active_state |-> None,
          allowed |-> <<>>]

\* a caller asks for the active state of the context
CallGetActiveState ==
    /\ ui.active_state = None
    /\ ui' = [ui EXCEPT !.active_state = get_active_state(ui.app)]
    /\ UNCHANGED <<flowVars, schemaVars, sessions>>

\* a caller asks whether the action is allowed in the context
CallCheckAction ==
    /\ ui.allowed = <<>>
    /\ ui' = [ui EXCEPT !.allowed = <<check_action(ui.app)>>]
    /\ UNCHANGED <<flowVars, schemaVars, sessions>>

SchemaIdle ==
    /\ caps = AllCapabilities
    /\ ifaces = Interfaces
    /\ resolver = None
    /\ object_cache = <<>>
    /\ queue = <<>>
    /\ worker = 0
    /\ ops = <<>>
    /\ started = <<>>
    /\ calls = <<>>

\* no connection flow in use
FlowIdle ==
    /\ cfgs = <<[name |-> "conn1", db_type |-> "postgresql", tcp_endpoint |-> Endpoint("secret1"), tunnel |-> NoTunnel]>>
    /\ orig = cfgs[1]
    /\ populated = cfgs[1]
    /\ store = [password |-> None, ssh_password |-> None]
    /\ hasPrompter = FALSE
    /\ hasManager = FALSE
    /\ flowPc = "new"
    /\ prompts = <<>>
    /\ ready = <<>>
    /\ lookups = {}

\* a fresh service over a session: empty cache, idle executor
InitService(capabilities, interfaces, resolvers) ==
    /\ caps \in capabilities
    /\ ifaces \in interfaces
    /\ resolver \in resolvers
    /\ object_cache = <<>>
    /\ queue = <<>>
    /\ worker = 0
    /\ ops = <<>>
    /\ started = <<>>
    /\ calls = <<>>
    /\ FlowIdle
    /\ SessionsIdle
    /\ UiIdle

Executor == WorkerStart \/ AdapterReturns

InitFlow ==
    /\ \E config \in ConnectionConfig :
          /\ cfgs = <<config>>
          /\ orig = config
          /\ populated = config
    /\ store \in [password : MaybeSecret, ssh_password : MaybeSecret]
    /\ hasPrompter \in BOOLEAN
    /\ hasManager \in BOOLEAN
    /\ flowPc = "new"
    /\ prompts = <<>>
    /\ ready = <<>>
    /\ lookups = {}
    /\ SchemaIdle
    /\ SessionsIdle
    /\ UiIdle

NextFlow ==
    \/ start
    \/ PrompterAnswersSsh
    \/ PrompterAnswersDb

SpecFlow == InitFlow /\ [][NextFlow]_vars

ExecCallers == 3

MaxExecCalls == 3

CacheCallers == 2

MaxCacheCalls == 3

GateCallers == 2

MaxGateCalls == 2

\* Callers of one session's service: every operation that goes through _run.
InitExec == InitService({AllCapabilities}, {Interfaces}, {None})

NextExec ==
    \/ /\ CanCall(ExecCallers, MaxExecCalls)
       /\ list_databases
    \/ /\ CanCall(ExecCallers, MaxExecCalls)
       /\ list_columns("db1")
    \/ /\ CanCall(ExecCallers, MaxExecCalls)
       /\ list_folder_items("tables", "db1")
    \/ \E c \in DOMAIN calls : list_folder_items_result(c)
    \/ \E c \in DOMAIN calls : run_result(c)
    \/ Executor

SpecExec == InitExec /\ [][NextExec]_vars

\* Callers listing the folders that are always available.
InitCache == InitService({AllCapabilities}, {Interfaces}, {None})

NextCache ==
    \/ /\ CanCall(CacheCallers, MaxCacheCalls)
       /\ \E folder_type \in {"tables", "views"}, database \in {"db1", "db2"} :
             list_folder_items(folder_type, database)
    \/ \E c \in DOMAIN calls : list_folder_items_result(c)
    \/ Executor

SpecCache == InitCache /\ [][NextCache]_vars

\* the capability sets and interface sets that differ in the gated kinds
GateCapabilities == {c \in Capabilities : c.supports_stored_procedures}

GateInterfaces == {s \in SUBSET Interfaces : "ProcedureInspector" \in s}

\* Callers listing the capability-gated folders.
InitGate == InitService(GateCapabilities, GateInterfaces, {None})

NextGate ==
    \/ /\ CanCall(GateCallers, MaxGateCalls)
       /\ \E folder_type \in GatedKinds, database \in {None, "db1"} :
             list_folder_items(folder_type, database)
    \/ \E c \in DOMAIN calls : list_folder_items_result(c)
    \/ Executor

SpecGate == InitGate /\ [][NextGate]_vars

DefCallers == 2

MaxDefCalls == 2

\* Callers looking up definitions, over every pairing of flags and interfaces.
InitDefs == InitService(GateCapabilities, GateInterfaces, {None})

NextDefs ==
    \/ /\ CanCall(DefCallers, MaxDefCalls)
       /\ \E op \in DefinitionOps : get_definition(op, "db1")
    \/ \E c \in DOMAIN calls : run_result(c)
    \/ Executor

SpecDefs == InitDefs /\ [][NextDefs]_vars

KeyCallers == 2

MaxKeyCalls == 3

\* Callers listing tables under selectors that a resolver may map together.
InitKeys == InitService({AllCapabilities}, {Interfaces}, Resolvers)

NextKeys ==
    \/ /\ CanCall(KeyCallers, MaxKeyCalls)
       /\ \E database \in {None, "", "db1"} : list_folder_items("tables", database)
    \/ \E c \in DOMAIN calls : list_folder_items_result(c)
    \/ Executor

SpecKeys == InitKeys /\ [][NextKeys]_vars

ResolveCallers == 1

MaxResolveCalls == 2

\* Callers of every operation that takes a database selector, with and
\* without an injected resolver, on an engine that supports every kind.
InitResolve == InitService({AllCapabilities}, {Interfaces}, Resolvers)

NextResolve ==
    \/ /\ CanCall(ResolveCallers, MaxResolveCalls)
       /\ \E database \in {None, "db1"} : list_columns(database)
    \/ /\ CanCall(ResolveCallers, MaxResolveCalls)
       /\ \E folder_type \in FolderKinds : list_folder_items(folder_type, "db1")
    \/ /\ CanCall(ResolveCallers, MaxResolveCalls)
       /\ \E op \in DefinitionOps : get_definition(op, "db1")
    \/ \E c \in DOMAIN calls : list_folder_items_result(c)
    \/ \E c \in DOMAIN calls : run_result(c)
    \/ Executor

SpecResolve == InitResolve /\ [][NextResolve]_vars

PermanentCallers == 2

MaxPermanentCalls == 2

\* Callers mixing cached listings with the operations that are not cached.
InitPermanent == InitService({AllCapabilities}, {Interfaces}, {None})

NextPermanent ==
    \/ /\ CanCall(PermanentCallers, MaxPermanentCalls)
       /\ \E folder_type \in {"tables", "views", "indexes"} : list_folder_items(folder_type, "db1")
    \/ /\ CanCall(PermanentCallers, MaxPermanentCalls)
       /\ list_folder_items("tables", None)
    \/ /\ CanCall(PermanentCallers, MaxPermanentCalls)
       /\ list_columns("db1")
    \/ /\ CanCall(PermanentCallers, MaxPermanentCalls)
       /\ list_databases
    \/ /\ CanCall(PermanentCallers, MaxPermanentCalls)
       /\ get_definition("get_index_definition", "db1")
    \/ \E c \in DOMAIN calls : list_folder_items_result(c)
    \/ \E c \in DOMAIN calls : run_result(c)
    \/ Executor

SpecPermanent == InitPermanent /\ [][NextPermanent]_vars

FailCallers == 2

MaxFailCalls == 3

\* Callers of the cached listings of one database, whose loaders may raise.
InitFail == InitService({AllCapabilities}, {Interfaces}, {None})

NextFail ==
    \/ /\ CanCall(FailCallers, MaxFailCalls)
       /\ \E folder_type \in CachedKinds : list_folder_items(folder_type, "db1")
    \/ \E c \in DOMAIN calls : list_folder_items_result(c)
    \/ Executor

SpecFail == InitFail /\ [][NextFail]_vars

MaxSessionCalls == 2

\* Two sessions, each with a caller of its own service.
InitSessions == FlowIdle /\ SchemaIdle /\ SessionsIdle /\ UiIdle

NextSessions ==
    \E s \in Sessions :
        \/ /\ SessionCanCall(s, MaxSessionCalls)
           /\ \E database \in {"db1", "db2"} : session_list_tables(s, database)
        \/ \E c \in DOMAIN sessions[s].calls : session_list_tables_result(s, c)
        \/ SessionWorkerStart(s)
        \/ SessionAdapterReturns(s)

SpecSessions == InitSessions /\ [][NextSessions]_vars

UnknownCallers == 2

MaxUnknownCalls == 3

\* folder kinds that list_folder_items has no branch for
UnknownKinds == {"functions", "TABLES"}

\* Callers listing tables and folder kinds the service does not know.
InitUnknown == InitService({AllCapabilities}, {Interfaces}, {None})

NextUnknown ==
    \/ /\ CanCall(UnknownCallers, MaxUnknownCalls)
       /\ \E folder_type \in UnknownKinds \cup {"tables"} : list_folder_items(folder_type, "db1")
    \/ \E c \in DOMAIN calls : list_folder_items_result(c)
    \/ Executor

SpecUnknown == InitUnknown /\ [][NextUnknown]_vars

SentinelCallers == 2

MaxSentinelCalls == 3

\* Callers listing tables with no database and under explicit names, one of
\* them spelled like the sentinel.
InitSentinel == InitService({AllCapabilities}, {Interfaces}, {None})

NextSentinel ==
    \/ /\ CanCall(SentinelCallers, MaxSentinelCalls)
       /\ \E database \in {None, "__default__", "db1"} : list_folder_items("tables", database)
    \/ \E c \in DOMAIN calls : list_folder_items_result(c)
    \/ Executor

SpecSentinel == InitSentinel /\ [][NextSentinel]_vars

ProcedureCallers == 2

MaxProcedureCalls == 3

\* the capability sets and interface sets that differ in stored procedures
ProcedureCapabilities ==
    {c \in Capabilities : c.supports_indexes /\ c.supports_triggers /\ c.supports_sequences}

ProcedureInterfaces == {s \in SUBSET Interfaces : Interfaces \ {"ProcedureInspector"} \subseteq s}

\* Callers listing procedures, on engines with and without stored procedures.
InitProcedures == InitService(ProcedureCapabilities, ProcedureInterfaces, {None})

NextProcedures ==
    \/ /\ CanCall(ProcedureCallers, MaxProcedureCalls)
       /\ \E database \in {None, "db1"} : list_folder_items("procedures", database)
    \/ \E c \in DOMAIN calls : list_folder_items_result(c)
    \/ Executor

SpecProcedures == InitProcedures /\ [][NextProcedures]_vars

QueueCallers == 2

MaxQueueCalls == 2

\* Callers of one session's service, on a worker that takes up every queued
\* operation, an adapter whose calls all end, and caller threads that wake
\* up once their future is resolved.
NextQueue ==
    \/ /\ CanCall(QueueCallers, MaxQueueCalls)
       /\ list_databases
    \/ /\ CanCall(QueueCallers, MaxQueueCalls)
       /\ list_columns("db1")
    \/ /\ CanCall(QueueCallers, MaxQueueCalls)
       /\ list_folder_items("tables", "db1")
    \/ \E c \in DOMAIN calls : list_folder_items_result(c)
    \/ \E c \in DOMAIN calls : run_result(c)
    \/ Executor

SpecQueue ==
    /\ InitExec
    /\ [][NextQueue]_vars
    /\ WF_vars(WorkerStart)
    /\ WF_vars(AdapterReturns)
    /\ \A c \in 1..MaxQueueCalls : WF_vars(list_folder_items_result(c))
    /\ \A c \in 1..MaxQueueCalls : WF_vars(run_result(c))

\* The state machine asked about any input context.
InitUi ==
    /\ ui \in [app : InputContext, active_state : {None}, allowed : {<<>>}]
    /\ FlowIdle
    /\ SchemaIdle
    /\ SessionsIdle

NextUi ==
    \/ CallGetActiveState
    \/ CallCheckAction

SpecUi == InitUi /\ [][NextUi]_vars

\* ------------------------------------------------------------------------
\* Properties of ConnectionFlow (checked under SpecFlow)
\* ------------------------------------------------------------------------

DbPromptRequested == \E j \in DOMAIN prompts : prompts[j].kind = "db"

MissingBoth ==
    /\ flowPc = "returned"
    /\ hasPrompter
    /\ needs_ssh_password(populated)
    /\ needs_db_password(populated)

\* C2: for a configuration that still misses both passwords after population,
\* with a prompter, the first prompt requested is the SSH prompt; a DB prompt
\* is requested only after an SSH callback delivered a password; and if the
\* SSH callback delivered none, no DB prompt is requested and on_ready is
\* not called.
C2_SshPromptBeforeDbPrompt ==
    MissingBoth =>
        /\ Len(prompts) >= 1
        /\ prompts[1].kind = "ssh"
        /\ \A j \in DOMAIN prompts :
              prompts[j].kind = "db" =>
                  \E i \in 1..(j - 1) :
                      /\ prompts[i].kind = "ssh"
                      /\ prompts[i].state = "done"
                      /\ prompts[i].answer # None
        /\ (\E i \in DOMAIN prompts :
                prompts[i].kind = "ssh" /\ prompts[i].state = "done" /\ prompts[i].answer = None)
           => (~DbPromptRequested /\ ready = <<>>)

C2_Witness ==
    /\ MissingBoth
    /\ Len(prompts) = 2
    /\ prompts[1].kind = "ssh"
    /\ prompts[1].answer \in Secrets
    /\ prompts[2].kind = "db"

\* C3: on_ready is called at most once per start(), and the configuration it
\* receives needs neither the SSH password nor the DB password.
C3_ReadyAtMostOnceWithSecrets ==
    /\ Len(ready) <= 1
    /\ \A k \in DOMAIN ready :
          /\ ~needs_ssh_password(ready[k].value)
          /\ ~needs_db_password(ready[k].value)

C3_Witness ==
    /\ Len(ready) = 1
    /\ Len(prompts) = 2
    /\ needs_ssh_password(populated)
    /\ needs_db_password(populated)

BothPresent(config) ==
    /\ config.tcp_endpoint.present
    /\ config.tcp_endpoint.password # None
    /\ config.tunnel.present
    /\ config.tunnel.password # None

\* C4: when both passwords are present on the configuration passed to
\* start(), on_ready has been called exactly once when start() returns, inside
\* start(), with that same object, which is unchanged; no prompt is requested.
C4_BothPresentReadySynchronously ==
    (flowPc = "returned" /\ BothPresent(orig)) =>
        /\ ready = <<[cfg |-> 1, value |-> orig, sync |-> TRUE]>>
        /\ cfgs = <<orig>>
        /\ prompts = <<>>

C4_Witness ==
    /\ flowPc = "returned"
    /\ BothPresent(orig)
    /\ Len(ready) = 1
    /\ store.password \in Secrets \ {orig.tcp_endpoint.password}
    /\ store.ssh_password \in Secrets \ {orig.tunnel.password}

MissingOnlyDb ==
    /\ flowPc = "returned"
    /\ hasPrompter
    /\ ~needs_ssh_password(populated)
    /\ needs_db_password(populated)

\* C5: for a configuration that misses only the DB password after population,
\* with a prompter, the one prompt requested is the DB prompt; once its
\* callback got a secret, on_ready has been called exactly once, with a
\* configuration whose endpoint password is that secret and whose other
\* fields are those of the configuration prompted for.
C5_OnlyDbPromptThenReady ==
    MissingOnlyDb =>
        /\ Len(prompts) = 1
        /\ prompts[1].kind = "db"
        /\ (prompts[1].state = "done" /\ prompts[1].answer # None) =>
              LET asked == cfgs[prompts[1].cfg] IN
              /\ Len(ready) = 1
              /\ ready[1].value.tcp_endpoint.password = prompts[1].answer
              /\ ready[1].value.tcp_endpoint.present = asked.tcp_endpoint.present
              /\ ready[1].value.tcp_endpoint.host = asked.tcp_endpoint.host
              /\ ready[1].value.tcp_endpoint.username = asked.tcp_endpoint.username
              /\ ready[1].value.tunnel = asked.tunnel
              /\ ready[1].value.name = asked.name
              /\ ready[1].value.db_type = asked.db_type

C5_Witness ==
    /\ MissingOnlyDb
    /\ prompts[1].state = "done"
    /\ prompts[1].answer = "secret1"
    /\ Len(ready) = 1
    /\ ready[1].value.tcp_endpoint.password = "secret1"
    /\ ready[1].value.tunnel.present

\* C6: without a prompter, when a required secret is still missing after
\* population, start() returns with no on_ready call and no prompt.
C6_NoPrompterSilentAbort ==
    (/\ flowPc = "returned"
     /\ ~hasPrompter
     /\ (needs_ssh_password(populated) \/ needs_db_password(populated)))
    => (ready = <<>> /\ prompts = <<>>)

C6_Witness ==
    /\ flowPc = "returned"
    /\ ~hasPrompter
    /\ ~needs_ssh_password(populated)
    /\ needs_db_password(populated)

\* C7: once a DB prompt's callback got none, on_ready is not called and no
\* prompt is requested after that one, whether or not an SSH prompt came first.
C7_DbPromptCancelled ==
    \A i \in DOMAIN prompts :
        (prompts[i].kind = "db" /\ prompts[i].state = "done" /\ prompts[i].answer = None)
        => (ready = <<>> /\ i = Len(prompts))

C7_Witness ==
    /\ Len(prompts) = 2
    /\ prompts[1].kind = "ssh"
    /\ prompts[1].answer \in Secrets
    /\ prompts[2].kind = "db"
    /\ prompts[2].state = "done"
    /\ prompts[2].answer = None

FilledFrom(before, after, stored) == after = before \/ (before = None /\ after = stored)

\* C8: the object passed to start() is changed by credential population only
\* (a missing endpoint or tunnel password filled from the store); after that
\* it never changes, whatever the prompts deliver.
C8_OriginalOnlyPopulated ==
    /\ flowPc = "new" => cfgs[1] = orig
    /\ flowPc = "returned" =>
          /\ cfgs[1] = populated
          /\ populated.name = orig.name
          /\ populated.db_type = orig.db_type
          /\ populated.tcp_endpoint.present = orig.tcp_endpoint.present
          /\ populated.tcp_endpoint.host = orig.tcp_endpoint.host
          /\ populated.tcp_endpoint.username = orig.tcp_endpoint.username
          /\ populated.tunnel.present = orig.tunnel.present
          /\ populated.tunnel.host = orig.tunnel.host
          /\ populated.tunnel.username = orig.tunnel.username
          /\ FilledFrom(orig.tcp_endpoint.password, populated.tcp_endpoint.password, store.password)
          /\ FilledFrom(orig.tunnel.password, populated.tunnel.password, store.ssh_password)

C8_Witness ==
    /\ Len(ready) = 1
    /\ Len(prompts) = 2
    /\ prompts[1].answer \in Secrets
    /\ prompts[2].answer \in Secrets
    /\ cfgs[1].tunnel.password = None
    /\ cfgs[1].tcp_endpoint.password = None
    /\ ready[1].value.tunnel.password = prompts[1].answer
    /\ ready[1].value.tcp_endpoint.password = prompts[2].answer

\* ------------------------------------------------------------------------
\* Properties of the session's executor (checked under SpecExec)
\* ------------------------------------------------------------------------

\* C1: the adapter sees the operations submitted through the session's
\* executor start in the order they were submitted (ops is in submission
\* order), and at no instant are two of them executing.
C1_SerialInSubmissionOrder ==
    /\ Cardinality(Running) <= 1
    /\ \A k \in DOMAIN started : started[k] = k

C1_Witness ==
    /\ Len(calls) = 3
    /\ \A c \in DOMAIN calls : calls[c].after = {}
    /\ Len(ops) = 3
    /\ started = <<1, 2, 3>>
    /\ Running = {3}

\* ------------------------------------------------------------------------
\* Properties of list_folder_items (checked under SpecCache and SpecGate)
\* ------------------------------------------------------------------------

\* the adapter operations call c submitted
AdapterCallsOf(c) == {i \in DOMAIN ops : ops[i].call = c}

OnEntry(c, kind, database) ==
    /\ calls[c].op = "list_folder_items"
    /\ calls[c].kind = kind
    /\ calls[c].db = database

\* up to call b, the calls for (kind, database) came one after the other
Consecutive(kind, database, b) ==
    \A x, y \in 1..b :
        (x < y /\ OnEntry(x, kind, database) /\ OnEntry(y, kind, database)) => x \in calls[y].after

ReturnedBefore(kind, database, b) ==
    {a \in 1..(b - 1) : OnEntry(a, kind, database) /\ calls[a].status = "returned"}

\* C9: for tables and for views, under a database name: of calls that come
\* one after the other, a call that follows one that returned submits no
\* adapter call and returns what that one returned, so the calls that
\* returned made one adapter call between them; a call for a (kind, database)
\* for which none has returned yet submits exactly one adapter call
\* (get_tables or get_views), whatever is cached under other databases; and
\* each database's entry stays in its own partition, holding what the first
\* returned call for it fetched.
C9_CachedPerDatabase ==
    \A b \in DOMAIN calls :
        LET kind == calls[b].kind
            database == calls[b].db
        IN  (/\ calls[b].op = "list_folder_items"
             /\ kind \in {"tables", "views"}
             /\ database \in {"db1", "db2"}
             /\ Consecutive(kind, database, b)) =>
                LET earlier == ReturnedBefore(kind, database, b) IN
                IF earlier = {}
                THEN /\ Cardinality(AdapterCallsOf(b)) = 1
                     /\ \A i \in AdapterCallsOf(b) :
                           ops[i].fn = IF kind = "tables" THEN "get_tables" ELSE "get_views"
                ELSE /\ AdapterCallsOf(b) = {}
                     /\ calls[b].status = "returned"
                     /\ \A a \in earlier : calls[b].result = calls[a].result
                     /\ Cardinality(UNION {AdapterCallsOf(a) : a \in earlier}) = 1
                     /\ database \in DOMAIN object_cache
                     /\ kind \in DOMAIN object_cache[database]
                     /\ \A a \in earlier :
                           AdapterCallsOf(a) # {} =>
                               object_cache[database][kind] = ops[OpOf(a)].result

C9_Witness ==
    /\ Len(calls) = 3
    /\ OnEntry(1, "tables", "db1")
    /\ OnEntry(2, "tables", "db1")
    /\ OnEntry(3, "tables", "db2")
    /\ calls[2].after = {1}
    /\ calls[3].after = {1, 2}
    /\ \A c \in 1..3 : calls[c].status = "returned"
    /\ Len(calls[1].result) = 2
    /\ calls[2].result = calls[1].result
    /\ calls[3].result = <<>>
    /\ AdapterCallsOf(1) = {1}
    /\ AdapterCallsOf(2) = {}
    /\ AdapterCallsOf(3) = {2}
    /\ DOMAIN object_cache = {"db1", "db2"}
    /\ Len(object_cache["db1"]["tables"]) = 2

\* the session reports the kind unsupported, or its inspector lacks the
\* kind's extension interface
GatedOut(kind) ==
    \/ kind = "indexes" /\ (~caps.supports_indexes \/ "IndexInspector" \notin ifaces)
    \/ kind = "triggers" /\ (~caps.supports_triggers \/ "TriggerInspector" \notin ifaces)
    \/ kind = "sequences" /\ (~caps.supports_sequences \/ "SequenceInspector" \notin ifaces)

\* C10: a list_folder_items call for indexes, triggers or sequences, when the
\* kind is unsupported, returns the empty sequence, does not raise, and
\* submits nothing to the adapter, for any database.
C10_UnsupportedKindIsEmpty ==
    \A c \in DOMAIN calls :
        (calls[c].op = "list_folder_items" /\ calls[c].kind \in GatedKinds /\ GatedOut(calls[c].kind)) =>
            /\ calls[c].status = "returned"
            /\ calls[c].result = <<>>
            /\ AdapterCallsOf(c) = {}

C10_Witness ==
    /\ Len(calls) = 2
    /\ caps.supports_indexes
    /\ "IndexInspector" \notin ifaces
    /\ ~caps.supports_sequences
    /\ OnEntry(1, "indexes", "db1")
    /\ OnEntry(2, "sequences", None)
    /\ calls[1].status = "returned"
    /\ calls[2].status = "returned"
    /\ ops = <<>>

\* the capability flag of the kind a definition lookup is about
flag_of(op) ==
    CASE op = "get_index_definition" -> caps.supports_indexes
      [] op = "get_trigger_definition" -> caps.supports_triggers
      [] op = "get_sequence_definition" -> caps.supports_sequences

\* C11: a definition lookup whose capability flag is false returns none and
\* never submits an adapter call.
C11_DefinitionNoneWhenFlagFalse ==
    \A c \in DOMAIN calls :
        (calls[c].op \in DefinitionOps /\ ~flag_of(calls[c].op)) =>
            /\ calls[c].status = "returned"
            /\ calls[c].result = None
            /\ AdapterCallsOf(c) = {}

\* ------------------------------------------------------------------------
\* Properties of the cache partitions (checked under SpecKeys)
\* ------------------------------------------------------------------------

\* up to call b, every call began after the ones before it had completed
Sequential(b) == \A x, y \in 1..b : x < y => x \in calls[y].after

\* what the injected resolver (identity when none) makes of call c's selector
ResolvedOf(c) == IF resolver = None THEN calls[c].db ELSE apply_resolver(resolver, calls[c].db)

\* the selector as passed, the empty ones standing for "no explicit database"
SelectorKey(c) == IF calls[c].db \in {None, ""} THEN "__default__" ELSE calls[c].db

ReturnedListings(kind, b) ==
    {a \in 1..(b - 1) : calls[a].op = "list_folder_items" /\ calls[a].kind = kind /\ calls[a].status = "returned"}

\* C12 as stated: of table listings that come one after the other, a call
\* whose selector resolves to the value an earlier returned call's selector
\* resolved to is served from the cache, and a call whose selector resolves
\* to a value none of them resolved to goes to the adapter.
C12_PartitionedByResolved ==
    \A b \in DOMAIN calls :
        (calls[b].op = "list_folder_items" /\ calls[b].kind = "tables" /\ Sequential(b)) =>
            IF \E a \in ReturnedListings("tables", b) : ResolvedOf(a) = ResolvedOf(b)
            THEN AdapterCallsOf(b) = {} /\ calls[b].status = "returned"
            ELSE Cardinality(AdapterCallsOf(b)) = 1

\* C12, amended: the partition is chosen by the selector as passed, none and
\* the empty string standing for "__default__", whatever the resolver makes
\* of it: of table listings that come one after the other, a call whose
\* selector gives the key of an earlier returned call is served from that
\* call's partition with the same items and no adapter call, and a call whose
\* selector gives a key no returned call had submits exactly one adapter
\* call, also when both selectors resolve to the same value.
C12_PartitionedBySelector ==
    \A b \in DOMAIN calls :
        (calls[b].op = "list_folder_items" /\ calls[b].kind = "tables" /\ Sequential(b)) =>
            LET earlier == {a \in ReturnedListings("tables", b) : SelectorKey(a) = SelectorKey(b)} IN
            IF earlier # {}
            THEN /\ AdapterCallsOf(b) = {}
                 /\ calls[b].status = "returned"
                 /\ \A a \in earlier : calls[b].result = calls[a].result
                 /\ SelectorKey(b) \in DOMAIN object_cache
                 /\ "tables" \in DOMAIN object_cache[SelectorKey(b)]
            ELSE /\ Cardinality(AdapterCallsOf(b)) = 1
                 /\ calls[b].status = "returned" =>
                        /\ SelectorKey(b) \in DOMAIN object_cache
                        /\ "tables" \in DOMAIN object_cache[SelectorKey(b)]

C12_Witness ==
    /\ resolver = "current"
    /\ Len(calls) = 3
    /\ Sequential(3)
    /\ calls[1].db = ""
    /\ calls[2].db = "db1"
    /\ calls[3].db = None
    /\ \A c \in 1..3 : calls[c].status = "returned"
    /\ ResolvedOf(1) = ResolvedOf(2)
    /\ AdapterCallsOf(1) = {1}
    /\ AdapterCallsOf(2) = {2}
    /\ AdapterCallsOf(3) = {}
    /\ Len(calls[1].result) = 2
    /\ calls[2].result = <<>>
    /\ calls[3].result = calls[1].result
    /\ DOMAIN object_cache = {"__default__", "db1"}

\* ------------------------------------------------------------------------
\* Properties of database-argument resolution (checked under SpecResolve)
\* ------------------------------------------------------------------------

\* C13: every adapter call submitted by list_columns, by list_folder_items
\* (of any kind) or by a definition lookup carries the resolver's value for
\* the caller's selector, the selector itself when no resolver is injected;
\* with a resolver that changes the selector, the raw selector is not what
\* the adapter gets.
C13_ForwardsResolved ==
    \A i \in DOMAIN ops :
        LET c == ops[i].call IN
        calls[c].op \in {"list_columns", "list_folder_items"} \cup DefinitionOps =>
            /\ ops[i].db_arg = ResolvedOf(c)
            /\ resolver = None => ops[i].db_arg = calls[c].db
            /\ resolver = "current" => ops[i].db_arg = None

C13_Witness ==
    /\ resolver = "current"
    /\ Len(calls) = 2
    /\ calls[1].op = "get_trigger_definition"
    /\ calls[1].db = "db1"
    /\ calls[2].op = "list_folder_items"
    /\ calls[2].kind = "sequences"
    /\ calls[2].db = "db1"
    /\ Len(ops) = 2
    /\ ops[1].fn = "get_trigger_definition"
    /\ ops[2].fn = "get_sequences"
    /\ ops[1].db_arg = None
    /\ ops[2].db_arg = None
    /\ ops[1].state = "done"
    /\ ops[2].state = "done"

\* ------------------------------------------------------------------------
\* Properties of cache population (checked under SpecPermanent)
\* ------------------------------------------------------------------------

\* call c lists kind under a selector whose partition is k
ListsEntry(c, k, kind) ==
    /\ calls[c].op = "list_folder_items"
    /\ calls[c].kind = kind
    /\ SelectorKey(c) = k

\* call c began when a listing of the entry had already returned, that is,
\* when the entry existed
BeganOnEntry(c, k, kind) ==
    \E a \in calls[c].after : ListsEntry(a, k, kind) /\ calls[a].status = "returned"

\* C14: in every step, each entry of the cache is still there afterwards; its
\* value changes only when a call that began before the entry existed, and
\* was waiting on the adapter for it, returns; and a list_folder_items call
\* that begins for an existing entry returns the entry's items at once and
\* submits nothing to the adapter. No operation begun once the entry exists
\* removes or changes it.
C14_PopulationPermanent ==
    [][\A k \in DOMAIN object_cache : \A kind \in DOMAIN object_cache[k] :
          /\ k \in DOMAIN object_cache'
          /\ kind \in DOMAIN object_cache'[k]
          /\ object_cache'[k][kind] # object_cache[k][kind] =>
                \E c \in InFlight :
                    /\ ListsEntry(c, k, kind)
                    /\ ~BeganOnEntry(c, k, kind)
                    /\ calls'[c].status = "returned"
          /\ Len(calls') > Len(calls) =>
                LET b == Len(calls') IN
                (calls'[b].op = "list_folder_items" /\ calls'[b].kind = kind
                    /\ k = (IF calls'[b].db \in {None, ""} THEN "__default__" ELSE calls'[b].db)) =>
                        /\ calls'[b].status = "returned"
                        /\ calls'[b].result = items(kind, object_cache[k][kind])
                        /\ ops' = ops
                        /\ object_cache' = object_cache
      ]_vars

C14_Witness ==
    /\ Len(calls) = 2
    /\ ListsEntry(1, "db1", "tables")
    /\ ListsEntry(2, "db1", "tables")
    /\ calls[2].after = {1}
    /\ calls[1].status = "returned"
    /\ calls[2].status = "returned"
    /\ Len(calls[2].result) = 2
    /\ Len(ops) = 1
    /\ object_cache["db1"]["tables"] = ops[1].result

\* ------------------------------------------------------------------------
\* Properties of the uncached operations (checked under SpecExec, SpecGate)
\* ------------------------------------------------------------------------

\* C15: a step in which a list_columns or list_databases call begins submits
\* exactly one adapter call for it (get_columns, get_databases), whatever is
\* cached and whatever calls came before; a step in which such a call ends
\* returns what that adapter call returned; neither step changes the object
\* cache; and a call never has more than its one adapter call.
C15_ColumnsAndDatabasesUncached ==
    [][\A c \in DOMAIN calls' :
          (calls'[c].op \in {"list_columns", "list_databases"} /\ (c \notin DOMAIN calls \/ calls'[c] # calls[c])) =>
              /\ object_cache' = object_cache
              /\ Cardinality({i \in DOMAIN ops' : ops'[i].call = c}) = 1
              /\ IF c \notin DOMAIN calls
                 THEN /\ calls'[c].status = "running"
                      /\ ops' = Append(ops, ops'[Len(ops')])
                      /\ ops'[Len(ops')].call = c
                      /\ ops'[Len(ops')].fn = IF calls'[c].op = "list_columns" THEN "get_columns" ELSE "get_databases"
                 ELSE /\ ops' = ops
                      /\ calls'[c].status = "returned" => calls'[c].result = ops[OpOf(c)].result
                      /\ calls'[c].status = "raised" => ops[OpOf(c)].state = "failed"
      ]_vars

C15_Witness ==
    /\ Len(calls) = 3
    /\ ListsEntry(1, "db1", "tables")
    /\ calls[2].op = "list_columns"
    /\ calls[3].op = "list_columns"
    /\ calls[2].after = {1}
    /\ calls[3].after = {1, 2}
    /\ \A c \in 1..3 : calls[c].status = "returned"
    /\ AdapterCallsOf(2) = {2}
    /\ AdapterCallsOf(3) = {3}
    /\ calls[2].result = calls[3].result
    /\ DOMAIN object_cache = {"db1"}
    /\ DOMAIN object_cache["db1"] = {"tables"}

\* C16: when indexes, triggers or sequences are supported (flag true and
\* interface implemented), a step in which a list_folder_items call for the
\* kind begins submits exactly one adapter call for it, also right after an
\* identical call; the step in which the call ends returns the items of what
\* that adapter call returned; and neither step changes the object cache.
C16_GatedListingsUncached ==
    [][\A c \in DOMAIN calls' :
          (/\ calls'[c].op = "list_folder_items"
           /\ calls'[c].kind \in {"indexes", "triggers", "sequences"}
           /\ ~GatedOut(calls'[c].kind)
           /\ (c \notin DOMAIN calls \/ calls'[c] # calls[c])) =>
              /\ object_cache' = object_cache
              /\ Cardinality({i \in DOMAIN ops' : ops'[i].call = c}) = 1
              /\ IF c \notin DOMAIN calls
                 THEN /\ calls'[c].status = "running"
                      /\ ops' = Append(ops, ops'[Len(ops')])
                      /\ ops'[Len(ops')].call = c
                      /\ ops'[Len(ops')].fn =
                            (CASE calls'[c].kind = "indexes" -> "get_indexes"
                               [] calls'[c].kind = "triggers" -> "get_triggers"
                               [] calls'[c].kind = "sequences" -> "get_sequences")
                 ELSE /\ ops' = ops
                      /\ calls'[c].status = "returned" =>
                            calls'[c].result = items(calls'[c].kind, ops[OpOf(c)].result)
      ]_vars

C16_Witness ==
    /\ Len(calls) = 2
    /\ ~GatedOut("triggers")
    /\ GatedOut("indexes")
    /\ ListsEntry(1, "db1", "triggers")
    /\ ListsEntry(2, "db1", "triggers")
    /\ calls[2].after = {1}
    /\ calls[1].status = "returned"
    /\ calls[2].status = "returned"
    /\ Len(calls[1].result) = 2
    /\ AdapterCallsOf(1) = {1}
    /\ AdapterCallsOf(2) = {2}
    /\ object_cache = <<>>

\* ------------------------------------------------------------------------
\* Properties of failures (checked under SpecExec, SpecFail)
\* ------------------------------------------------------------------------

\* C17: a call raises only when the operation it submitted itself failed, and
\* a call whose own operation completed returns that operation's result,
\* whichever other operations of the session failed before or after it; and
\* a failure leaves the worker in service: with an operation queued and none
\* running the worker can start it, and every operation not yet started is
\* still in the queue.
C17_FailureReachesOnlyItsCaller ==
    /\ \A c \in DOMAIN calls :
          /\ calls[c].status = "raised" =>
                AdapterCallsOf(c) # {} /\ ops[OpOf(c)].state = "failed"
          /\ (calls[c].status = "returned" /\ AdapterCallsOf(c) # {}) =>
                /\ ops[OpOf(c)].state = "done"
                /\ calls[c].result = IF calls[c].op = "list_folder_items"
                                     THEN items(calls[c].kind, ops[OpOf(c)].result)
                                     ELSE ops[OpOf(c)].result
          /\ (AdapterCallsOf(c) # {} /\ ops[OpOf(c)].state = "done") => calls[c].status # "raised"
    /\ (queue # <<>> /\ Running = {}) => ENABLED WorkerStart
    /\ \A i \in DOMAIN ops : ops[i].state = "queued" => \E j \in DOMAIN queue : queue[j] = i

C17_Witness ==
    /\ Len(calls) = 3
    /\ Len(ops) = 3
    /\ calls[2].after = {}
    /\ calls[3].after = {1, 2}
    /\ ops[1].state = "done"
    /\ ops[2].state = "failed"
    /\ ops[3].state = "done"
    /\ calls[1].status = "returned"
    /\ calls[2].status = "raised"
    /\ calls[3].status = "returned"
    /\ calls[1].op = "list_columns"
    /\ calls[3].op = "list_databases"
    /\ Len(calls[1].result) = 2
    /\ Len(calls[3].result) = 2

\* every partition of the cache holds an entry, and every entry is one that
\* a returned listing call asked for
OnlyReturnedListingsCached ==
    \A k \in DOMAIN object_cache :
        /\ DOMAIN object_cache[k] # {}
        /\ \A kind \in DOMAIN object_cache[k] :
              \E c \in DOMAIN calls : ListsEntry(c, k, kind) /\ calls[c].status = "returned"

\* C18: for tables, views and procedures: the step in which a call begins
\* and the step in which it ends by raising leave the object cache as it
\* was; a call raises exactly when its own loader failed; the cache never
\* holds a partition or an entry for which no call has returned; and a call
\* that begins when every earlier call for its (partition, kind) has raised
\* submits one adapter call of its own.
C18_FailedLoaderLeavesCache ==
    [][/\ OnlyReturnedListingsCached
       /\ OnlyReturnedListingsCached'
       /\ \A c \in DOMAIN calls' :
             (/\ calls'[c].op = "list_folder_items"
              /\ calls'[c].kind \in {"tables", "views", "procedures"}
              /\ (c \notin DOMAIN calls \/ calls'[c] # calls[c])) =>
                 IF c \notin DOMAIN calls
                 THEN /\ object_cache' = object_cache
                      /\ (\A a \in DOMAIN calls :
                              ListsEntry(a, "db1", calls'[c].kind) => calls[a].status = "raised") =>
                            /\ calls'[c].status = "running"
                            /\ ops' = Append(ops, ops'[Len(ops')])
                            /\ ops'[Len(ops')].call = c
                 ELSE /\ calls'[c].status = "raised" <=> ops[OpOf(c)].state = "failed"
                      /\ calls'[c].status = "raised" => object_cache' = object_cache
      ]_vars

C18_Witness ==
    /\ Len(calls) = 3
    /\ ListsEntry(1, "db1", "views")
    /\ ListsEntry(2, "db1", "procedures")
    /\ ListsEntry(3, "db1", "procedures")
    /\ calls[2].after = {1}
    /\ calls[3].after = {1, 2}
    /\ calls[1].status = "returned"
    /\ calls[2].status = "raised"
    /\ calls[3].status = "running"
    /\ AdapterCallsOf(2) = {2}
    /\ AdapterCallsOf(3) = {3}
    /\ DOMAIN object_cache = {"db1"}
    /\ DOMAIN object_cache["db1"] = {"views"}

\* ------------------------------------------------------------------------
\* Properties of populate_credentials_if_missing (checked under SpecFlow)
\* ------------------------------------------------------------------------

\* C19: when the endpoint password and the tunnel password are both present
\* on the configuration, populate_credentials_if_missing asks the credential
\* store for nothing and leaves the configuration as it was, whatever the
\* store holds.
C19_PopulateNoOpWhenBothPresent ==
    (flowPc # "new" /\ BothPresent(orig)) =>
        /\ lookups = {}
        /\ populated = orig
        /\ cfgs[1] = orig

C19_Witness ==
    /\ flowPc # "new"
    /\ ~hasManager
    /\ BothPresent(orig)
    /\ store.password \in Secrets \ {orig.tcp_endpoint.password}
    /\ store.ssh_password \in Secrets \ {orig.tunnel.password}
    /\ lookups = {}
    /\ populated.tcp_endpoint.password = orig.tcp_endpoint.password
    /\ populated.tunnel.password = orig.tunnel.password

\* ------------------------------------------------------------------------
\* Properties of distinct sessions (checked under SpecSessions)
\* ------------------------------------------------------------------------

\* C20: of two sessions, no step changes the executor, the calls or the
\* cache of both: every step touches one session and leaves the other as it
\* was. Each session's executor holds only the operations of its own
\* service; a call raises only when its own session's operation failed and
\* returns the items of its own session's operation or cache entry; a
\* session's worker can start its next operation whenever it is idle and
\* one is queued, whatever the other session is doing; and a cache entry of
\* a session is one a call of that session returned.
C20_SessionsIndependent ==
    [][/\ \A s, t \in Sessions :
             (s # t /\ sessions'[s] # sessions[s]) => sessions'[t] = sessions[t]
       /\ \A s \in Sessions :
             /\ \A i \in DOMAIN sessions'[s].ops : sessions'[s].ops[i].svc = s
             /\ (sessions[s].queue # <<>> /\ sessions[s].running = 0) => ENABLED SessionWorkerStart(s)
             /\ \A c \in DOMAIN sessions'[s].calls :
                   sessions'[s].calls[c].status = "raised" =>
                       \E i \in DOMAIN sessions'[s].ops :
                           /\ sessions'[s].ops[i].call = c
                           /\ sessions'[s].ops[i].state = "failed"
             /\ \A k \in DOMAIN sessions'[s].object_cache :
                   \E c \in DOMAIN sessions'[s].calls :
                       /\ sessions'[s].calls[c].status = "returned"
                       /\ sessions'[s].calls[c].result = items("tables", sessions'[s].object_cache[k]["tables"])
      ]_vars

C20_Witness ==
    /\ Len(sessions["s1"].calls) = 2
    /\ Len(sessions["s2"].calls) = 2
    /\ sessions["s1"].calls[1].status = "raised"
    /\ sessions["s1"].calls[2].db = sessions["s1"].calls[1].db
    /\ sessions["s1"].running = 2
    /\ sessions["s2"].calls[1].db = "db1"
    /\ sessions["s2"].calls[1].status = "returned"
    /\ Len(sessions["s2"].calls[1].result) = 2
    /\ sessions["s2"].calls[2].db = "db2"
    /\ sessions["s2"].running = 2
    /\ sessions["s1"].object_cache = <<>>
    /\ DOMAIN sessions["s2"].object_cache = {"db1"}

\* ------------------------------------------------------------------------
\* Properties of waiting callers (checked under SpecQueue)
\* ------------------------------------------------------------------------

\* a call has ended only when the operation it queued has completed or failed
BlocksUntilCompleted ==
    \A c \in DOMAIN calls :
        (calls[c].status # "running" /\ AdapterCallsOf(c) # {}) =>
            ops[OpOf(c)].state \in {"done", "failed"}

\* an operation has started only when every operation submitted before it
\* has completed or failed
NoQueueJumping ==
    \A i, j \in DOMAIN ops :
        (i < j /\ ops[j].state # "queued") => ops[i].state \in {"done", "failed"}

\* C21: a schema-service call ends only once the operation it queued has
\* completed or failed; an operation submitted after another does not start
\* before that one has finished; and, every adapter call ending, every call
\* that has begun eventually returns or raises.
C21_BlocksInOrderAndReturns ==
    /\ [](BlocksUntilCompleted /\ NoQueueJumping)
    /\ \A c \in 1..MaxQueueCalls :
          (c \in DOMAIN calls) ~> (c \in DOMAIN calls /\ calls[c].status # "running")

C21_Witness ==
    /\ Len(calls) = 2
    /\ calls[1].op = "list_columns"
    /\ calls[2].op = "list_databases"
    /\ calls[2].after = {}
    /\ calls[1].status = "running"
    /\ calls[2].status = "running"
    /\ ops[1].state = "failed"
    /\ ops[2].state = "running"

\* ------------------------------------------------------------------------
\* Properties of prompting (checked under SpecFlow)
\* ------------------------------------------------------------------------

PromptsOf(kind) == {i \in DOMAIN prompts : prompts[i].kind = kind}

\* C22: one start() requests at most one SSH prompt and at most one DB
\* prompt; an SSH prompt only for a tunnel whose password is still none after
\* population, a DB prompt only for an endpoint whose password is still none
\* after population; and a password that was missing and that the store
\* holds is never prompted for.
C22_PromptsOnlyWhenRequired ==
    /\ Cardinality(PromptsOf("ssh")) <= 1
    /\ Cardinality(PromptsOf("db")) <= 1
    /\ PromptsOf("ssh") # {} =>
          /\ hasPrompter
          /\ populated.tunnel.present
          /\ populated.tunnel.password = None
          /\ orig.tunnel.password = None
          /\ store.ssh_password = None
    /\ PromptsOf("db") # {} =>
          /\ hasPrompter
          /\ populated.tcp_endpoint.present
          /\ populated.tcp_endpoint.password = None
          /\ orig.tcp_endpoint.password = None
          /\ store.password = None

C22_Witness ==
    /\ ~hasManager
    /\ orig.tunnel.present
    /\ orig.tunnel.password = None
    /\ orig.tcp_endpoint.present
    /\ orig.tcp_endpoint.password = None
    /\ store.ssh_password = "secret2"
    /\ store.password = None
    /\ lookups = {"get_password", "get_ssh_password"}
    /\ Len(prompts) = 1
    /\ prompts[1].kind = "db"
    /\ prompts[1].state = "done"
    /\ Len(ready) = 1
    /\ ready[1].value.tunnel.password = "secret2"

\* the lookup made for a password field: one when the field is there and none
LookupFor(field, lookup) == IF field.present /\ field.password = None THEN {lookup} ELSE {}

\* C23: with no connection manager, population asks the store for the
\* endpoint's password exactly when the endpoint's password is none, and for
\* the tunnel's exactly when the tunnel's is none; a field that was none
\* holds the store's secret if the store returned one and stays none if it
\* returned none; a field that held a password keeps it; nothing else of the
\* configuration changes; and when nothing is missing afterwards no prompt
\* is ever requested.
C23_PopulateFillsOnlyMissing ==
    (flowPc # "new" /\ ~hasManager) =>
        /\ lookups = LookupFor(orig.tcp_endpoint, "get_password") \cup LookupFor(orig.tunnel, "get_ssh_password")
        /\ populated.tcp_endpoint.password =
              IF "get_password" \in lookups /\ store.password # None
              THEN store.password ELSE orig.tcp_endpoint.password
        /\ populated.tunnel.password =
              IF "get_ssh_password" \in lookups /\ store.ssh_password # None
              THEN store.ssh_password ELSE orig.tunnel.password
        /\ [populated EXCEPT !.tcp_endpoint.password = None, !.tunnel.password = None]
              = [orig EXCEPT !.tcp_endpoint.password = None, !.tunnel.password = None]
        /\ cfgs[1] = populated
        /\ (populated.tcp_endpoint.password # None /\ populated.tunnel.password # None) => prompts = <<>>

C23_Witness ==
    /\ flowPc # "new"
    /\ ~hasManager
    /\ orig.tcp_endpoint = Endpoint(None)
    /\ orig.tunnel = Tunnel(None)
    /\ store.password = None
    /\ store.ssh_password = "secret1"
    /\ lookups = {"get_password", "get_ssh_password"}
    /\ populated.tcp_endpoint.password = None
    /\ populated.tunnel.password = "secret1"

\* ------------------------------------------------------------------------
\* Properties of the procedures folder (checked under SpecProcedures)
\* ------------------------------------------------------------------------

\* C24: when stored procedures are unsupported (flag false, or the inspector
\* lacks the procedure interface), every procedures listing returns the
\* empty sequence at once, submits nothing and the cache stays empty; when
\* supported, of calls that come one after the other, the one for which no
\* call of its partition has returned yet submits exactly one get_procedures
\* call, and one that follows a returned call of its partition submits none
\* and returns the same items.
C24_ProceduresGatedAndCached ==
    \A b \in DOMAIN calls :
        (calls[b].op = "list_folder_items" /\ calls[b].kind = "procedures") =>
            IF ~caps.supports_stored_procedures \/ "ProcedureInspector" \notin ifaces
            THEN /\ calls[b].status = "returned"
                 /\ calls[b].result = <<>>
                 /\ ops = <<>>
                 /\ object_cache = <<>>
            ELSE Sequential(b) =>
                    LET earlier == {a \in ReturnedListings("procedures", b) : SelectorKey(a) = SelectorKey(b)} IN
                    IF earlier = {}
                    THEN /\ Cardinality(AdapterCallsOf(b)) = 1
                         /\ \A i \in AdapterCallsOf(b) : ops[i].fn = "get_procedures"
                    ELSE /\ AdapterCallsOf(b) = {}
                         /\ calls[b].status = "returned"
                         /\ \A a \in earlier : calls[b].result = calls[a].result
                         /\ "procedures" \in DOMAIN object_cache[SelectorKey(b)]

C24_Witness ==
    /\ caps.supports_stored_procedures
    /\ "ProcedureInspector" \in ifaces
    /\ Len(calls) = 3
    /\ Sequential(3)
    /\ calls[1].db = "db1"
    /\ calls[2].db = "db1"
    /\ calls[3].db = None
    /\ calls[1].status = "returned"
    /\ calls[2].status = "returned"
    /\ calls[2].result = <<<<"procedure", "", "sp_b">>, <<"procedure", "", "sp_a">>>>
    /\ AdapterCallsOf(1) = {1}
    /\ AdapterCallsOf(2) = {}
    /\ AdapterCallsOf(3) = {2}

\* ------------------------------------------------------------------------
\* Properties of racing callers (checked under SpecCache)
\* ------------------------------------------------------------------------

\* C25: whatever the interleaving of the callers, the adapter calls made for
\* one (partition, cached kind) are at most one: no two operations were
\* submitted by listing calls of the same kind and partition.
C25_AdapterAtMostOncePerEntry ==
    \A i, j \in DOMAIN ops :
        (/\ calls[ops[i].call].op = "list_folder_items"
         /\ calls[ops[j].call].op = "list_folder_items"
         /\ calls[ops[i].call].kind \in {"tables", "views", "procedures"}
         /\ calls[ops[i].call].kind = calls[ops[j].call].kind
         /\ SelectorKey(ops[i].call) = SelectorKey(ops[j].call)) => i = j

\* ------------------------------------------------------------------------
\* Properties of the sentinel partition (checked under SpecSentinel)
\* ------------------------------------------------------------------------

\* C26: of table listings that come one after the other, with database none
\* or an explicit non-empty name ("__default__" among the names): a call is
\* served from the cache only if an earlier call with the very same selector
\* returned; a call with database none is never answered from what a call
\* naming a database cached, nor the reverse.
C26_DefaultPartitionDisjoint ==
    \A b \in DOMAIN calls :
        (/\ calls[b].op = "list_folder_items"
         /\ calls[b].kind = "tables"
         /\ Sequential(b)
         /\ AdapterCallsOf(b) = {}) =>
            \E a \in ReturnedListings("tables", b) : calls[a].db = calls[b].db

\* ------------------------------------------------------------------------
\* Properties of memoised values (checked under SpecFail, SpecCache)
\* ------------------------------------------------------------------------

\* C27: for tables, views and procedures, of calls that come one after the
\* other: once a call for a (partition, kind) returned the empty sequence
\* that the adapter gave it, the entry is there and holds the empty listing,
\* and a later call for it submits no adapter call and returns the empty
\* sequence.
C27_EmptyListingMemoised ==
    \A b \in DOMAIN calls :
        (/\ calls[b].op = "list_folder_items"
         /\ calls[b].kind \in {"tables", "views", "procedures"}
         /\ Sequential(b)
         /\ \E a \in ReturnedListings(calls[b].kind, b) :
               SelectorKey(a) = SelectorKey(b) /\ calls[a].result = <<>>) =>
            /\ AdapterCallsOf(b) = {}
            /\ calls[b].status = "returned"
            /\ calls[b].result = <<>>
            /\ SelectorKey(b) \in DOMAIN object_cache
            /\ calls[b].kind \in DOMAIN object_cache[SelectorKey(b)]
            /\ Sequential(Len(calls)) => object_cache[SelectorKey(b)][calls[b].kind] = <<>>

C27_Witness ==
    /\ Len(calls) = 3
    /\ Sequential(3)
    /\ \A c \in 1..3 : ListsEntry(c, "db1", "views")
    /\ \A c \in 1..3 : calls[c].status = "returned" /\ calls[c].result = <<>>
    /\ Len(ops) = 1
    /\ ops[1].result = <<>>
    /\ object_cache["db1"]["views"] = <<>>

\* ------------------------------------------------------------------------
\* Properties of unknown folder kinds (checked under SpecUnknown)
\* ------------------------------------------------------------------------

\* C28: the step in which a list_folder_items call begins for a folder kind
\* other than tables, views, indexes, triggers, sequences and procedures ends
\* the call at once with the empty sequence, and leaves the executor's
\* queue, the submitted operations and the object cache as they were, also
\* when the cache holds listings.
C28_UnknownKindIsEmpty ==
    [][\A c \in DOMAIN calls' :
          (/\ calls'[c].op = "list_folder_items"
           /\ calls'[c].kind \notin {"tables", "views", "indexes", "triggers", "sequences", "procedures"}) =>
              /\ calls'[c].status = "returned"
              /\ calls'[c].result = <<>>
              /\ c \notin DOMAIN calls =>
                    /\ ops' = ops
                    /\ queue' = queue
                    /\ worker' = worker
                    /\ object_cache' = object_cache
      ]_vars

C28_Witness ==
    /\ Len(calls) = 3
    /\ Sequential(3)
    /\ calls[1].kind = "tables"
    /\ calls[2].kind = "functions"
    /\ calls[3].kind = "TABLES"
    /\ \A c \in 1..3 : calls[c].status = "returned"
    /\ Len(calls[1].result) = 2
    /\ calls[2].result = <<>>
    /\ calls[3].result = <<>>
    /\ Len(ops) = 1
    /\ DOMAIN object_cache["db1"] = {"tables"}

\* the items list_folder_items is to make of an adapter listing of tables,
\* views or procedures: one per element, in the listing's order
ItemsInOrder(kind, raw, result) ==
    /\ Len(result) = Len(raw)
    /\ \A i \in 1..Len(raw) :
          result[i] = (CASE kind = "tables" -> <<"table", raw[i][1], raw[i][2]>>
                         [] kind = "views" -> <<"view", raw[i][1], raw[i][2]>>
                         [] kind = "procedures" -> <<"procedure", "", raw[i]>>)

\* C29: a returned listing of tables, views or procedures that went to the
\* adapter has one item per element of what the adapter returned, in the
\* adapter's order, ("table" or "view", schema, name) or ("procedure", "",
\* name); a returned listing that was served from the cache is the very
\* sequence returned by a call that populated the entry before it began.
C29_OrderAndLengthPreserved ==
    \A c \in DOMAIN calls :
        (/\ calls[c].op = "list_folder_items"
         /\ calls[c].kind \in {"tables", "views", "procedures"}
         /\ calls[c].status = "returned") =>
            IF AdapterCallsOf(c) # {}
            THEN ItemsInOrder(calls[c].kind, ops[OpOf(c)].result, calls[c].result)
            ELSE \E a \in calls[c].after :
                    /\ ListsEntry(a, SelectorKey(c), calls[c].kind)
                    /\ calls[a].status = "returned"
                    /\ AdapterCallsOf(a) # {}
                    /\ calls[c].result = calls[a].result
                    /\ ItemsInOrder(calls[c].kind, ops[OpOf(a)].result, calls[c].result)

C29_Witness ==
    /\ Len(calls) = 3
    /\ ListsEntry(1, "db1", "procedures")
    /\ ListsEntry(2, "db1", "procedures")
    /\ ListsEntry(3, "db1", "tables")
    /\ calls[2].after = {1}
    /\ ops[1].result = <<"sp_b", "sp_a">>
    /\ calls[1].result = <<<<"procedure", "", "sp_b">>, <<"procedure", "", "sp_a">>>>
    /\ calls[2].status = "returned"
    /\ calls[2].result = calls[1].result
    /\ AdapterCallsOf(2) = {}
    /\ calls[3].status = "returned"
    /\ calls[3].result = <<<<"table", "public", "users">>, <<"table", "public", "accounts">>>>

\* ------------------------------------------------------------------------
\* Properties of UIStateMachine (checked under SpecUi)
\* ------------------------------------------------------------------------

ActiveStates(app) == {s \in StateNames : is_active(s, app)}

Position(state) == CHOOSE i \in DOMAIN _states : _states[i] = state

\* state is the active state listed first, or root when no state is active
IsFirstActive(state, app) ==
    IF ActiveStates(app) = {}
    THEN state = "root"
    ELSE /\ state \in ActiveStates(app)
         /\ \A s \in ActiveStates(app) : Position(state) <= Position(s)

\* C30: for every input context get_active_state returns a state: the active
\* state that comes first in the priority list (modal_active, then
\* query_executing, then leader_pending, then tree_filter_active, ..., then
\* main_screen, then root), and root when no state is active; a state that
\* is active together with its parent keeps the parent from being returned;
\* and check_action is true exactly when the check_action of that one state
\* yields ALLOWED.
C30_FirstActiveStateDecides ==
    /\ ui.active_state # None =>
          LET act == ActiveStates(ui.app) IN
          /\ ui.active_state \in StateNames
          /\ IsFirstActive(ui.active_state, ui.app)
          /\ "modal_active" \in act => ui.active_state = "modal_active"
          /\ ("query_executing" \in act /\ "modal_active" \notin act) =>
                ui.active_state = "query_executing"
          /\ ("leader_pending" \in act /\ act \cap {"modal_active", "query_executing"} = {}) =>
                ui.active_state = "leader_pending"
          /\ ("tree_filter_active" \in act
                /\ act \cap {"modal_active", "query_executing", "leader_pending"} = {}) =>
                ui.active_state = "tree_filter_active"
          /\ ui.active_state = "main_screen" => act \subseteq {"main_screen", "root"}
          /\ ui.active_state = "root" => act \subseteq {"root"}
          /\ \A s \in act \ {"root"} : parent_of(s) \in act => ui.active_state # parent_of(s)
    /\ ui.allowed # <<>> =>
          \E s \in StateNames :
              /\ IsFirstActive(s, ui.app)
              /\ \A t \in StateNames : IsFirstActive(t, ui.app) => t = s
              /\ ui.allowed[1] = (State_check_action(s, ui.app) = "ALLOWED")

C30_Witness ==
    /\ ~ui.app.modal_open
    /\ ~ui.app.query_executing
    /\ ui.app.active = {"tree_on_table", "tree_focused"}
    /\ ui.app.allowing = "tree_focused"
    /\ ui.active_state = "tree_on_table"
    /\ ui.allowed = <<FALSE>>

\* C31: MainScreenState.is_active holds of an input context exactly when no
\* modal is open and no query is executing; and in a context where a modal
\* is open or a query is executing, get_active_state does not return
\* main_screen, whatever the other states report.
C31_MainScreenNeedsNoModalNoQuery ==
    /\ is_active("main_screen", ui.app) <=> (~ui.app.modal_open /\ ~ui.app.query_executing)
    /\ (ui.active_state # None /\ (ui.app.modal_open \/ ui.app.query_executing)) =>
          ui.active_state # "main_screen"
    /\ ui.active_state = "main_screen" =>
          (~ui.app.modal_open /\ ~ui.app.query_executing)

C31_Witness ==
    /\ ui.app.query_executing
    /\ ~ui.app.modal_open
    /\ ui.app.active = {}
    /\ ui.active_state = "root"

====
